---- MODULE Spec2Model ----
(***************************************************************************)
(* Model of the sparse, demand-driven indexing engine LSPEngine            *)
(* (src/mcp/python-lsp-mcp-server/src/engine.py) together with the         *)
(* per-file parser it consumes (src/mcp/python-lsp-mcp-server/src/         *)
(* parser.py).                                                             *)
(*                                                                         *)
(* Representation.                                                         *)
(*  - A resolved path is the sequence of its components with the ".py"     *)
(*    suffix of the last one stripped: <<"r","a","b">> is /r/a/b.py.       *)
(*    Components contain no dot.                                           *)
(*  - A Python dict whose iteration order is observable is a sequence of   *)
(*    [k, v] entries in insertion order (DictSet keeps the position of an  *)
(*    existing key); the other dicts are functions on their key set.       *)
(*  - Python None is NoSymbol for strings and NoPath for paths.            *)
(*  - A raised exception is the field "raised" of an operation's result.   *)
(***************************************************************************)
EXTENDS Integers, Sequences, FiniteSets, TLC

\* ------------------------------------------------------------------------
\* Bounds of the model
\* ------------------------------------------------------------------------
MaxFiles == 2          \* entries yielded by the discovery sweep
MaxEagerBytes == 2     \* max_eager_bytes ranges over 0..MaxEagerBytes
MaxFaulty == 1         \* paths that are unparsable or missing on disk
MaxEdits == 1          \* files rewritten after the construction
MaxTasks == 2          \* tool calls in flight at once

NoSymbol == "<None>"
NoPath == <<>>

\* ------------------------------------------------------------------------
\* The file system the engine runs on
\* ------------------------------------------------------------------------
project_root == <<"r">>

PathA == <<"r", "a">>
PathAB == <<"r", "a", "b">>
PathOutA == <<"o", "a">>

Paths == {PathA, PathAB, PathOutA}

\* A text (str) is the sequence of its characters; an Optional[str] is a
\* record telling None from a text.
NoText == [some |-> FALSE, chars |-> <<>>]

Text(chars) == [some |-> TRUE, chars |-> chars]

\* A statement of a module body: a declaration (class, function, variable)
\* with its nested body, or any other statement (kind "expr"); doc is what
\* ast.get_docstring gives for it and source what ast.get_source_segment gives.
Stmt(name, kind, line, body) ==
    [name |-> name, kind |-> kind, line |-> line, body |-> body,
     doc |-> NoText, source |-> <<>>, annotation |-> NoSymbol]

\* an annotated assignment; annotation is what ast.unparse gives
Annotated(stmt, annotation) == [stmt EXCEPT !.annotation = annotation]

Documented(stmt, doc, source) ==
    [stmt EXCEPT !.doc = Text(doc), !.source = source]

NameAt(symbol, line, column) ==
    [symbol |-> symbol, line |-> line, column |-> column]

\* the text of a file: its characters, the module docstring, the statements
\* of the module body and the Name nodes in the order of ast.walk
FileText(chars, doc, body, names) ==
    [chars |-> chars, doc |-> doc, body |-> body, names |-> names]

\* /r/a.py:        def b(): pass
\*                 x = b()
\* /r/a/b.py:      class C:
\*                     "c"
\*                     def __init__(self): "i"
\*                     def f(self): pass
\*                 x = C()
\*                 x: "T" = zz
\*                 a = 1
\* /o/a.py:        def f(): pass          (outside the project root)
\*                 def b(): pass
\*                 b()
SourceText(p) ==
    CASE p = PathA ->
           FileText(<<"A">>, NoText,
                    << Stmt("b", "function", 1, <<>>),
                       Stmt("x", "variable", 2, <<>>) >>,
                    << NameAt("x", 2, 0), NameAt("b", 2, 4) >>)
      [] p = PathAB ->
           FileText(<<"B", "B">>, NoText,
                    << Documented(
                         Stmt("C", "class", 1,
                              << Documented(Stmt("__init__", "function", 3, <<>>),
                                            <<"i">>, <<"I">>),
                                 Stmt("f", "function", 4, <<>>) >>),
                         <<"c">>, <<"C", "C">>),
                       Stmt("x", "variable", 5, <<>>),
                       Annotated(Stmt("x", "variable", 6, <<>>), "'T'"),
                       Stmt("a", "variable", 7, <<>>) >>,
                    << NameAt("x", 5, 0), NameAt("C", 5, 4),
                       NameAt("x", 6, 0), NameAt("zz", 6, 4),
                       NameAt("a", 7, 0) >>)
      [] OTHER ->
           FileText(<<"O">>, NoText,
                    << Stmt("f", "function", 1, <<>>),
                       Stmt("b", "function", 2, <<>>),
                       Stmt("", "expr", 3, <<>>) >>,
                    << NameAt("b", 3, 0) >>)

ByteSize(p) == IF p = PathAB THEN 2 ELSE 1

\* Symbols and file paths the callers pass to the queries.
QuerySymbols == {"b", "f", "C", "a.b", "zz"}

\* str.lower() and the substring test `x in y`, on the strings of the model.
Lower(s) ==
    CASE s = "C" -> "c"
      [] s = "INIT" -> "init"
      [] s = "CLASS" -> "class"
      [] s = "'T'" -> "'t'"
      [] OTHER -> s

\* the pairs <<x, y>> of different non-empty strings of the model with x in y
ProperSubstrings == {<<"init", "__init__">>, <<"t", "'t'">>}

IsSubstring(x, y) == x = "" \/ x = y \/ <<x, y>> \in ProperSubstrings

\* ------------------------------------------------------------------------
\* Helpers: sequences, dicts, stable sort
\* ------------------------------------------------------------------------
Range(s) == {s[i] : i \in 1..Len(s)}

RECURSIVE SeqsUpTo(_, _)
SeqsUpTo(S, n) ==
    IF n = 0 THEN {<<>>}
    ELSE LET shorter == SeqsUpTo(S, n - 1)
         IN shorter \cup {Append(s, x) : s \in shorter, x \in S}

DictKeys(d) == {d[i].k : i \in 1..Len(d)}

DictGet(d, key) == (CHOOSE i \in 1..Len(d) : d[i].k = key)

DictValue(d, key) == d[DictGet(d, key)].v

\* d[key] = value on a dict in insertion order
DictSet(d, key, value) ==
    IF key \in DictKeys(d)
    THEN [d EXCEPT ![DictGet(d, key)] = [k |-> key, v |-> value]]
    ELSE Append(d, [k |-> key, v |-> value])

\* d[key] = value on a dict whose order is not observable
MapSet(m, key, value) ==
    [x \in DOMAIN m \cup {key} |-> IF x = key THEN value ELSE m[x]]

\* d.setdefault(key, []).append(value)
MapAppend(m, key, value) ==
    MapSet(m, key, IF key \in DOMAIN m THEN Append(m[key], value) ELSE <<value>>)

EmptyMap == [x \in {} |-> 0]

\* tuple comparison a <= b of Python (lexicographic, same length)
RECURSIVE TupleLeq(_, _)
TupleLeq(a, b) ==
    IF a = <<>> THEN TRUE
    ELSE IF Head(a) < Head(b) THEN TRUE
    ELSE IF Head(a) > Head(b) THEN FALSE
    ELSE TupleLeq(Tail(a), Tail(b))

\* sorted(files, key=...): stable, ascending; key maps a path to a tuple
RECURSIVE InsertSorted(_, _, _)
InsertSorted(sorted, x, key) ==
    IF sorted = <<>> THEN <<x>>
    ELSE IF TupleLeq(key[Head(sorted)], key[x])
         THEN <<Head(sorted)>> \o InsertSorted(Tail(sorted), x, key)
         ELSE <<x>> \o sorted

RECURSIVE SortedBy(_, _)
SortedBy(files, key) ==
    IF files = <<>> THEN <<>>
    ELSE InsertSorted(SortedBy(SubSeq(files, 1, Len(files) - 1), key),
                      files[Len(files)], key)

\* ------------------------------------------------------------------------
\* parser.py
\* ------------------------------------------------------------------------
RECURSIVE JoinDot(_)
JoinDot(parts) ==
    IF Len(parts) = 1 THEN parts[1]
    ELSE parts[1] \o "." \o JoinDot(Tail(parts))

Stem(p) == p[Len(p)]

IsRelativeTo(p, root) ==
    /\ Len(p) > Len(root)
    /\ SubSeq(p, 1, Len(root)) = root

\* _compute_module_qualified_name
ComputeModuleQualifiedName(file_path, root) ==
    IF IsRelativeTo(file_path, root)
    THEN JoinDot(SubSeq(file_path, Len(root) + 1, Len(file_path)))
    ELSE Stem(file_path)

SymbolDefinition(parent, name, kind, ann, file_path, line, doc, init_doc, source, qualname) ==
    [parent_qualified_name |-> parent, name |-> name, kind |-> kind,
     type_annotation |-> ann,
     file_path |-> file_path, line |-> line, docstring |-> doc,
     init_docstring |-> init_doc, full_source |-> source,
     qualified_name |-> qualname]

\* lines 242-249: the docstring of the first __init__ among the statements
\* of a class body, None when there is none
RECURSIVE InitDocstring(_)
InitDocstring(body) ==
    IF body = <<>> THEN NoText
    ELSE IF Head(body).kind = "function" /\ Head(body).name = "__init__"
         THEN Head(body).doc
    ELSE InitDocstring(Tail(body))

OutlineNode(symbol, children) == [symbol |-> symbol, children |-> children]

\* walk_body: returns the definitions dict after the walk and the outline
\* nodes appended to the parent node
RECURSIVE WalkBody(_, _, _, _)
RECURSIVE WalkStmt(_, _, _, _)
RECURSIVE Declare(_, _, _)

Walked(definitions, children) ==
    [definitions |-> definitions, children |-> children]

ThenChildren(children, rest) ==
    Walked(rest.definitions, children \o rest.children)

\* the outline node of a declaration around the walk of its body
NodeAround(defn, inner) ==
    Walked(inner.definitions, <<OutlineNode(defn, inner.children)>>)

\* the nodes of a nested body appended to the parent's children, next to
\* the node of the declaration
DeclareFlat(defn, node, definitions) ==
    IF node.kind \in {"class", "function"}
    THEN ThenChildren(<<OutlineNode(defn, <<>>)>>,
                      WalkBody(node.body, defn.qualified_name, defn.file_path,
                               DictSet(definitions, defn.qualified_name, defn)))
    ELSE Walked(DictSet(definitions, defn.qualified_name, defn),
                <<OutlineNode(defn, <<>>)>>)

\* definitions[qualname] = defn, the new node, then the nested body
Declare(defn, node, definitions) ==
    IF node.kind \in {"class", "function"}
    THEN NodeAround(defn, WalkBody(node.body, defn.qualified_name,
                                   defn.file_path,
                                   DictSet(definitions, defn.qualified_name, defn)))
    ELSE Walked(DictSet(definitions, defn.qualified_name, defn),
                <<OutlineNode(defn, <<>>)>>)

\* one iteration of `for node in body`
WalkStmt(node, parent_qualname, file_path, definitions) ==
    IF node.kind = "expr" THEN Walked(definitions, <<>>)
    ELSE Declare(SymbolDefinition(parent_qualname, node.name, node.kind,
                                  node.annotation, file_path, node.line,
                                  IF node.kind = "variable" THEN NoText
                                  ELSE node.doc,
                                  IF node.kind = "class"
                                  THEN InitDocstring(node.body) ELSE NoText,
                                  Text(node.source),
                                  parent_qualname \o "." \o node.name),
                 node, definitions)

WalkFrom(body, parent_qualname, file_path, first) ==
    ThenChildren(first.children,
                 WalkBody(Tail(body), parent_qualname, file_path,
                          first.definitions))

WalkBody(body, parent_qualname, file_path, definitions) ==
    IF body = <<>> THEN Walked(definitions, <<>>)
    ELSE WalkFrom(body, parent_qualname, file_path,
                  WalkStmt(Head(body), parent_qualname, file_path, definitions))

SymbolReference(symbol, file_path, line, column) ==
    [symbol |-> symbol, file_path |-> file_path, line |-> line,
     column |-> column]

References(names, file_path) ==
    [i \in 1..Len(names) |->
       SymbolReference(names[i].symbol, file_path, names[i].line,
                       names[i].column)]

ParseResult(module_def, walked, references) ==
    [raised |-> FALSE,
     module_node |-> OutlineNode(module_def, walked.children),
     definitions |-> walked.definitions,
     references |-> references]

\* the module definition (its name is module_qualname.split(".")[-1], the
\* last path component) and the walk of the module body
ParseModule(module_def, text) ==
    ParseResult(module_def,
                WalkBody(text.body, module_def.qualified_name,
                         module_def.file_path,
                         <<[k |-> module_def.qualified_name, v |-> module_def]>>),
                References(text.names, module_def.file_path))

\* parse_python_file: read_text / ast.parse raise on a file that cannot be
\* read or parsed
ParsePythonFile(file_path, root, d) ==
    IF ~d[file_path].ok
    THEN [raised |-> TRUE, module_node |-> <<>>, definitions |-> <<>>,
          references |-> <<>>]
    ELSE ParseModule(SymbolDefinition(NoSymbol, Stem(file_path), "module",
                                      NoSymbol, file_path, 1, d[file_path].text.doc,
                                      NoText, Text(d[file_path].text.chars),
                                      ComputeModuleQualifiedName(file_path, root)),
                     d[file_path].text)

\* ------------------------------------------------------------------------
\* engine.py: state of one LSPEngine and of its environment
\* ------------------------------------------------------------------------
VARIABLES
    disk,                    \* path -> [exists, ok, size, text]
    rglob,                   \* resolved paths yielded by project_root.rglob
    max_eager_files,
    max_eager_bytes,
    all_files,               \* _all_files (list)
    file_sizes,              \* _file_sizes
    total_bytes,             \* _total_bytes
    indexed_files,           \* _indexed_files
    outline_index,           \* outline_index: path -> module node
    symbol_index,            \* symbol_index (insertion-ordered dict)
    symbols_by_simple_name,  \* _symbols_by_simple_name
    references,              \* references (list)
    refs_by_symbol,          \* _refs_by_symbol
    node_index,              \* _node_index
    phase,                   \* "new", "ready" or "failed" (__init__ raised)
    last,                    \* the last call and its outcome
    tasks                    \* server.py: the tool calls in flight

engineVars == <<all_files, file_sizes, total_bytes, indexed_files,
                outline_index, symbol_index, symbols_by_simple_name,
                references, refs_by_symbol, node_index>>

\* the index maps: everything _index_file writes
indexVars == <<indexed_files, outline_index, symbol_index,
               symbols_by_simple_name, references, refs_by_symbol, node_index>>

\* the project and the constructor's arguments
worldVars == <<disk, rglob, max_eager_files, max_eager_bytes>>

envVars == <<disk, rglob, max_eager_files, max_eager_bytes, tasks>>

vars == <<disk, rglob, max_eager_files, max_eager_bytes, all_files,
          file_sizes, total_bytes, indexed_files, outline_index,
          symbol_index, symbols_by_simple_name, references, refs_by_symbol,
          node_index, phase, last, tasks>>

\* the engine's fields as one value, for the operators below
Self ==
    [all_files |-> all_files, file_sizes |-> file_sizes,
     total_bytes |-> total_bytes, indexed_files |-> indexed_files,
     outline_index |-> outline_index, symbol_index |-> symbol_index,
     symbols_by_simple_name |-> symbols_by_simple_name,
     references |-> references, refs_by_symbol |-> refs_by_symbol,
     node_index |-> node_index]

Commit(st) ==
    /\ all_files' = st.all_files
    /\ file_sizes' = st.file_sizes
    /\ total_bytes' = st.total_bytes
    /\ indexed_files' = st.indexed_files
    /\ outline_index' = st.outline_index
    /\ symbol_index' = st.symbol_index
    /\ symbols_by_simple_name' = st.symbols_by_simple_name
    /\ references' = st.references
    /\ refs_by_symbol' = st.refs_by_symbol
    /\ node_index' = st.node_index

\* path.stat().st_size, 0 when stat raises OSError
StatSize(d, path) == IF d[path].exists THEN d[path].size ELSE 0

\* _discover_files
RECURSIVE DiscoverLoop(_, _, _)
RECURSIVE DiscoverLoopStopping(_, _, _)
\* the sweep given up at the first file whose size cannot be read
DiscoverLoopStopping(acc, d, entries) ==
    IF entries = <<>> \/ ~d[Head(entries)].exists THEN acc
    ELSE DiscoverLoopStopping(
             [all_files |-> Append(acc.all_files, Head(entries)),
              file_sizes |-> MapSet(acc.file_sizes, Head(entries),
                                    StatSize(d, Head(entries))),
              total_bytes |-> acc.total_bytes + StatSize(d, Head(entries))],
             d, Tail(entries))

DiscoverLoop(acc, d, entries) ==
    IF entries = <<>> THEN acc
    ELSE LET path == Head(entries)
             size == StatSize(d, path)
         IN DiscoverLoop([all_files |-> Append(acc.all_files, path),
                          file_sizes |-> MapSet(acc.file_sizes, path, size),
                          total_bytes |-> acc.total_bytes + size],
                         d, Tail(entries))

DiscoverFiles(st, d, entries) ==
    LET found == DiscoverLoop([all_files |-> <<>>, file_sizes |-> EmptyMap,
                               total_bytes |-> 0], d, entries)
    IN [st EXCEPT !.all_files = found.all_files,
                  !.file_sizes = found.file_sizes,
                  !.total_bytes = found.total_bytes]

\* _register_outline_node
RECURSIVE RegisterOutlineNode(_, _)
RECURSIVE RegisterOutlineNodes(_, _)
\* the node registered without its children
RegisterOutlineNodeAlone(index, node) ==
    MapSet(index, node.symbol.qualified_name, node)

RegisterOutlineNode(index, node) ==
    RegisterOutlineNodes(MapSet(index, node.symbol.qualified_name, node),
                         node.children)

RegisterOutlineNodes(index, nodes) ==
    IF nodes = <<>> THEN index
    ELSE RegisterOutlineNodes(RegisterOutlineNode(index, Head(nodes)),
                              Tail(nodes))

\* the qualified name put in front of the list of its simple name
RegisterDefinitionFirst(st, defn) ==
    [st EXCEPT !.symbol_index = DictSet(@, defn.qualified_name, defn),
               !.symbols_by_simple_name =
                   MapSet(@, defn.name,
                          IF defn.name \in DOMAIN @
                          THEN <<defn.qualified_name>> \o @[defn.name]
                          ELSE <<defn.qualified_name>>)]

\* _register_definition
RegisterDefinition(st, defn) ==
    [st EXCEPT !.symbol_index = DictSet(@, defn.qualified_name, defn),
               !.symbols_by_simple_name =
                   MapAppend(@, defn.name, defn.qualified_name)]

RECURSIVE RegisterDefinitions(_, _)
RegisterDefinitions(st, definitions) ==
    IF definitions = <<>> THEN st
    ELSE RegisterDefinitions(RegisterDefinition(st, Head(definitions).v),
                             Tail(definitions))

\* the reference put in front of the list of its name
RegisterReferenceFirst(st, ref) ==
    [st EXCEPT !.references = Append(@, ref),
               !.refs_by_symbol =
                   MapSet(@, ref.symbol,
                          IF ref.symbol \in DOMAIN @
                          THEN <<ref>> \o @[ref.symbol] ELSE <<ref>>)]

\* _register_reference
RegisterReference(st, ref) ==
    [st EXCEPT !.references = Append(@, ref),
               !.refs_by_symbol = MapAppend(@, ref.symbol, ref)]

RECURSIVE RegisterReferences(_, _)
RegisterReferences(st, refs) ==
    IF refs = <<>> THEN st
    ELSE RegisterReferences(RegisterReference(st, Head(refs)), Tail(refs))

Outcome(st, raised) == [st |-> st, raised |-> raised]

\* the file marked as indexed before the parser has returned
MergeMarkingFirst(st, file_path, parsed) ==
    IF parsed.raised
    THEN Outcome([st EXCEPT !.indexed_files = @ \cup {file_path}], TRUE)
    ELSE Outcome(
           RegisterReferences(
             RegisterDefinitions(
               [st EXCEPT
                  !.outline_index = MapSet(@, file_path, parsed.module_node),
                  !.indexed_files = @ \cup {file_path},
                  !.node_index = RegisterOutlineNode(@, parsed.module_node)],
               parsed.definitions),
             parsed.references),
           FALSE)

\* lines 167-179 of _index_file: merge what the parser returned
Merge(st, file_path, parsed) ==
    IF parsed.raised THEN Outcome(st, TRUE)
    ELSE Outcome(
           RegisterReferences(
             RegisterDefinitions(
               [st EXCEPT
                  !.outline_index = MapSet(@, file_path, parsed.module_node),
                  !.indexed_files = @ \cup {file_path},
                  !.node_index = RegisterOutlineNode(@, parsed.module_node)],
               parsed.definitions),
             parsed.references),
           FALSE)

\* _index_file without the test `file_path in self._indexed_files`
IndexFileNoIndexedTest(st, d, file_path) ==
    IF ~d[file_path].exists THEN Outcome(st, FALSE)
    ELSE Merge(st, file_path, ParsePythonFile(file_path, project_root, d))

\* _index_file without the test `file_path.exists()`
IndexFileNoExistsTest(st, d, file_path) ==
    IF file_path \in st.indexed_files THEN Outcome(st, FALSE)
    ELSE Merge(st, file_path, ParsePythonFile(file_path, project_root, d))

\* _index_file marking a path without a file as indexed
IndexFileMarkingMissing(st, d, file_path) ==
    IF file_path \in st.indexed_files THEN Outcome(st, FALSE)
    ELSE IF ~d[file_path].exists
    THEN Outcome([st EXCEPT !.indexed_files = @ \cup {file_path}], FALSE)
    ELSE Merge(st, file_path, ParsePythonFile(file_path, project_root, d))

\* _index_file: the engine after the call, and whether the call raised
IndexFile(st, d, file_path) ==
    IF file_path \in st.indexed_files THEN Outcome(st, FALSE)
    ELSE IF ~d[file_path].exists THEN Outcome(st, FALSE)
    ELSE Merge(st, file_path, ParsePythonFile(file_path, project_root, d))

\* for path in files: self._index_file(path), left by the first exception
RECURSIVE IndexEach(_, _, _)
IndexRest(r, d, files) ==
    IF r.raised THEN r ELSE IndexEach(r.st, d, files)

\* the eager loop leaving after its first file
IndexEachFirstOnly(st, d, files) ==
    IF files = <<>> THEN Outcome(st, FALSE)
    ELSE IndexFile(st, d, Head(files))

IndexEach(st, d, files) ==
    IF files = <<>> THEN Outcome(st, FALSE)
    ELSE IndexRest(IndexFile(st, d, Head(files)), d, Tail(files))

SizeKey(st) == [p \in Range(st.all_files) |->
                  << IF p \in DOMAIN st.file_sizes THEN st.file_sizes[p] ELSE 0 >>]

\* files_sorted[: n] of Python for n >= 0
Prefix(s, n) == SubSeq(s, 1, IF n < Len(s) THEN n ELSE Len(s))

\* to_index of _initial_index
ToIndex(files_sorted, st, mef, meb) ==
    IF Len(st.all_files) <= mef /\ st.total_bytes <= meb
    THEN files_sorted
    ELSE Prefix(files_sorted, mef)

\* the eager subset taken in discovery order, not by ascending size
EagerListUnsorted(st, mef, meb) ==
    ToIndex(st.all_files, st, mef, meb)

EagerList(st, mef, meb) ==
    ToIndex(SortedBy(st.all_files, SizeKey(st)), st, mef, meb)

\* _initial_index
InitialIndex(st, d, mef, meb) ==
    IF st.all_files = <<>> THEN [st |-> st, raised |-> FALSE]
    ELSE IndexEach(st, d, EagerList(st, mef, meb))

\* _ensure_file_indexed without lines 229-234: an undiscovered path is
\* indexed without being added to the discovered files
EnsureFileIndexedUndiscovered(st, d, path) ==
    IF path \in st.indexed_files THEN Outcome(st, FALSE)
    ELSE IndexFile(st, d, path)

\* _ensure_file_indexed
EnsureFileIndexed(st, d, path) ==
    IF path \in st.indexed_files THEN Outcome(st, FALSE)
    ELSE IndexFile(IF path \in Range(st.all_files) THEN st
                   ELSE [st EXCEPT !.all_files = Append(@, path),
                                   !.file_sizes = MapSet(@, path, StatSize(d, path))],
                   d, path)

\* symbol in self.symbol_index or symbol in self._symbols_by_simple_name
IsKnown(st, symbol) ==
    \/ symbol \in DictKeys(st.symbol_index)
    \/ symbol \in DOMAIN st.symbols_by_simple_name

\* score(path) of _ensure_symbol_indexed
Score(st, symbol) ==
    [p \in Range(st.all_files) |->
       << IF IsSubstring(Lower(symbol), Lower(Stem(p))) THEN 0 ELSE 1,
          IF p \in DOMAIN st.file_sizes THEN st.file_sizes[p] ELSE 0 >>]

\* the loop of _ensure_symbol_indexed: index, then test, then break
RECURSIVE ScanFor(_, _, _, _)
ScanRest(r, d, symbol, files) ==
    IF r.raised \/ IsKnown(r.st, symbol) THEN r
    ELSE ScanFor(r.st, d, symbol, files)

ScanFor(st, d, symbol, files) ==
    IF files = <<>> THEN Outcome(st, FALSE)
    ELSE ScanRest(IndexFile(st, d, Head(files)), d, symbol, Tail(files))

\* the paths the loop of _ensure_symbol_indexed passes to _index_file
RECURSIVE ScanVisits(_, _, _, _)
ScanVisitsRest(r, d, symbol, files) ==
    IF r.raised \/ IsKnown(r.st, symbol) THEN <<>>
    ELSE ScanVisits(r.st, d, symbol, files)

ScanVisits(st, d, symbol, files) ==
    IF files = <<>> THEN <<>>
    ELSE <<Head(files)>> \o
         ScanVisitsRest(IndexFile(st, d, Head(files)), d, symbol, Tail(files))

\* remaining = [p for p in self._all_files if p not in self._indexed_files]
Remaining(st) == SelectSeq(st.all_files, LAMBDA p : p \notin st.indexed_files)

\* the remaining files scanned in the order of discovery
ScanRemainingUnsorted(st, d, symbol, remaining) ==
    IF remaining = <<>> THEN Outcome(st, FALSE)
    ELSE ScanFor(st, d, symbol, remaining)

ScanRemaining(st, d, symbol, remaining) ==
    IF remaining = <<>> THEN Outcome(st, FALSE)
    ELSE ScanFor(st, d, symbol, SortedBy(remaining, Score(st, symbol)))

\* the scan started without the test of lines 249-250
EnsureSymbolIndexedAlways(st, d, symbol) ==
    ScanRemaining(st, d, symbol, Remaining(st))

\* _ensure_symbol_indexed
EnsureSymbolIndexed(st, d, symbol) ==
    IF IsKnown(st, symbol) THEN Outcome(st, FALSE)
    ELSE ScanRemaining(st, d, symbol, Remaining(st))

\* the candidate of the file indexed last instead of the first one
ResolveLastIndexed(st, symbol) ==
    IF symbol \in DictKeys(st.symbol_index) THEN symbol
    ELSE IF symbol \in DOMAIN st.symbols_by_simple_name
         THEN st.symbols_by_simple_name[symbol][
                  Len(st.symbols_by_simple_name[symbol])]
    ELSE NoSymbol

\* a simple name with several candidates treated as unresolved
ResolveUnambiguous(st, symbol) ==
    IF symbol \in DictKeys(st.symbol_index) THEN symbol
    ELSE IF /\ symbol \in DOMAIN st.symbols_by_simple_name
            /\ Len(st.symbols_by_simple_name[symbol]) = 1
         THEN st.symbols_by_simple_name[symbol][1]
    ELSE NoSymbol

\* the last entry of the collision list taken instead of the first
ResolveLastOccurrence(st, symbol) ==
    IF symbol \in DictKeys(st.symbol_index) THEN symbol
    ELSE IF symbol \in DOMAIN st.symbols_by_simple_name
         THEN st.symbols_by_simple_name[symbol][Len(st.symbols_by_simple_name[symbol])]
    ELSE NoSymbol

\* _resolve_symbol_qualified_name (NoSymbol is Python's None)
ResolveSymbolQualifiedName(st, symbol) ==
    IF symbol \in DictKeys(st.symbol_index) THEN symbol
    ELSE IF symbol \in DOMAIN st.symbols_by_simple_name
         THEN st.symbols_by_simple_name[symbol][1]
    ELSE NoSymbol

\* ---- the views of a definition: truncation ------------------------------
MAX_CHARS_HARD_LIMIT == 1500

\* the default of max_chars of get_definition_short
DefaultMaxChars == 1000

\* the character U+2026 appended to a cut docstring
Ellipsis == "..."

\* "\n" + U+2026 + "(truncated)", appended to a cut source
TruncatedMarker ==
    <<"\n", Ellipsis, "(", "t", "r", "u", "n", "c", "a", "t", "e", "d", ")">>

Min(a, b) == IF a < b THEN a ELSE b

\* s[:n] of Python: the first n items, all but the last -n when n < 0
Slice(s, n) ==
    SubSeq(s, 1, IF n >= 0 THEN Min(n, Len(s))
                 ELSE IF Len(s) + n > 0 THEN Len(s) + n ELSE 0)

\* if doc and len(doc) > max_chars: doc = doc[:max_chars] + U+2026
TruncateDoc(doc, max_chars) ==
    IF doc.some /\ doc.chars # <<>> /\ Len(doc.chars) > max_chars
    THEN Text(Slice(doc.chars, max_chars) \o <<Ellipsis>>)
    ELSE doc

\* lines 399-401: source = defn.full_source or "", cut with the marker
CutSource(source, max_chars) ==
    IF Len(source) > max_chars
    THEN Slice(source, max_chars) \o TruncatedMarker
    ELSE source

TruncateSource(full_source, max_chars) ==
    CutSource(IF full_source.some THEN full_source.chars ELSE <<>>, max_chars)

\* the value a definition query returns: None, or the fields of a definition
NotFound == [found |-> FALSE, name |-> NoSymbol, kind |-> NoSymbol,
             file_path |-> NoPath]

\* lines 335-353 (type_annotation is None for every declaration modelled)
ShortView(defn, max_chars) ==
    [found |-> TRUE, name |-> defn.name, kind |-> defn.kind,
     file_path |-> defn.file_path,
     docstring |-> TruncateDoc(defn.docstring, max_chars),
     init_docstring |-> TruncateDoc(defn.init_docstring, max_chars)]

\* lines 399-414
FullView(defn, max_chars) ==
    [found |-> TRUE, name |-> defn.name, kind |-> defn.kind,
     file_path |-> defn.file_path, line |-> defn.line,
     docstring |-> defn.docstring, init_docstring |-> defn.init_docstring,
     source |-> TruncateSource(defn.full_source, max_chars)]

Answer(st, raised, result) ==
    [st |-> st, raised |-> raised, result |-> result]

\* defn of lines 318-333: None, or a SymbolDefinition
NoDefinition == [found |-> FALSE]

Found(defn) == [found |-> TRUE, defn |-> defn]

\* lines 320-323: the definition a resolved name gives
DefinitionOfSymbol(e, qualname) ==
    IF e.raised \/ qualname = NoSymbol THEN Answer(e.st, e.raised, NoDefinition)
    ELSE Answer(e.st, FALSE, Found(DictValue(e.st.symbol_index, qualname)))

ResolvedDefinition(e, symbol) ==
    DefinitionOfSymbol(e, ResolveSymbolQualifiedName(e.st, symbol))

\* the module looked up in the symbol table under its qualified name
ModuleDefinitionByName(e, file_path) ==
    DefinitionOfSymbol(e, IF e.raised \/ file_path \notin DOMAIN e.st.outline_index
                          THEN NoSymbol
                          ELSE e.st.outline_index[file_path].symbol.qualified_name)

\* lines 325-328: the module definition of an indexed file
ModuleDefinition(e, file_path) ==
    IF e.raised \/ file_path \notin DOMAIN e.st.outline_index
    THEN Answer(e.st, e.raised, NoDefinition)
    ELSE Answer(e.st, FALSE, Found(e.st.outline_index[file_path].symbol))

\* the file path tested before the symbol
GetDefinitionFileFirst(st, d, symbol, file_path) ==
    IF file_path # NoPath
    THEN ModuleDefinition(EnsureFileIndexed(st, d, file_path), file_path)
    ELSE IF symbol # NoSymbol
    THEN ResolvedDefinition(EnsureSymbolIndexed(st, d, symbol), symbol)
    ELSE Answer(st, FALSE, NoDefinition)

\* lines 318-333 of get_definition_short, 382-397 of get_definition_full
GetDefinition(st, d, symbol, file_path) ==
    IF symbol # NoSymbol
    THEN ResolvedDefinition(EnsureSymbolIndexed(st, d, symbol), symbol)
    ELSE IF file_path # NoPath
    THEN ModuleDefinition(EnsureFileIndexed(st, d, file_path), file_path)
    ELSE Answer(st, FALSE, NoDefinition)

ShortAnswer(r, max_chars) ==
    Answer(r.st, r.raised,
           IF r.result.found THEN ShortView(r.result.defn, max_chars)
           ELSE NotFound)

\* the bound of the caller used as it comes, without the hard limit
GetDefinitionShortUncapped(st, d, symbol, file_path, max_chars) ==
    ShortAnswer(GetDefinition(st, d, symbol, file_path), max_chars)

\* get_definition_short
GetDefinitionShort(st, d, symbol, file_path, max_chars) ==
    ShortAnswer(GetDefinition(st, d, symbol, file_path),
                Min(MAX_CHARS_HARD_LIMIT, max_chars))

FullAnswer(r, max_chars) ==
    Answer(r.st, r.raised,
           IF r.result.found THEN FullView(r.result.defn, max_chars)
           ELSE NotFound)

\* the bound of the caller used as it comes, without the hard limit
GetDefinitionFullUncapped(st, d, symbol, file_path, max_chars) ==
    FullAnswer(GetDefinition(st, d, symbol, file_path), max_chars)

\* get_definition_full
GetDefinitionFull(st, d, symbol, file_path, max_chars) ==
    FullAnswer(GetDefinition(st, d, symbol, file_path),
               Min(MAX_CHARS_HARD_LIMIT, max_chars))

\* _serialize_outline_node
RECURSIVE SerializeOutlineNode(_, _)
SerializeOutlineNode(node, max_chars) ==
    [name |-> node.symbol.name, kind |-> node.symbol.kind,
     file_path |-> node.symbol.file_path, line |-> node.symbol.line,
     docstring |-> TruncateDoc(node.symbol.docstring,
                               Min(MAX_CHARS_HARD_LIMIT, max_chars)),
     init_docstring |-> TruncateDoc(node.symbol.init_docstring,
                                    Min(MAX_CHARS_HARD_LIMIT, max_chars)),
     children |-> [i \in 1..Len(node.children) |->
                     SerializeOutlineNode(node.children[i],
                                          Min(MAX_CHARS_HARD_LIMIT, max_chars))]]

\* the node itself serialized, wrapped in a list
SerializedSelf(node, max_chars) ==
    <<SerializeOutlineNode(node, max_chars)>>

\* lines 509-511: the serialized children of the node
SerializedChildren(node, max_chars) ==
    [i \in 1..Len(node.children) |->
       SerializeOutlineNode(node.children[i], max_chars)]

\* lines 492-497: the node a resolved name gives
OutlineOfSymbol(e, qualname, max_chars) ==
    IF e.raised \/ qualname = NoSymbol \/ qualname \notin DOMAIN e.st.node_index
    THEN Answer(e.st, e.raised, <<>>)
    ELSE Answer(e.st, FALSE,
                SerializedChildren(e.st.node_index[qualname], max_chars))

ResolvedOutline(e, symbol, max_chars) ==
    OutlineOfSymbol(e, ResolveSymbolQualifiedName(e.st, symbol), max_chars)

\* lines 499-503: the module node of an indexed file
ModuleOutline(e, file_path, max_chars) ==
    IF e.raised \/ file_path \notin DOMAIN e.st.outline_index
    THEN Answer(e.st, e.raised, <<>>)
    ELSE Answer(e.st, FALSE,
                SerializedChildren(e.st.outline_index[file_path], max_chars))

\* get_outline
GetOutline(st, d, symbol, file_path, max_chars) ==
    IF symbol # NoSymbol
    THEN ResolvedOutline(EnsureSymbolIndexed(st, d, symbol), symbol,
                         Min(MAX_CHARS_HARD_LIMIT, max_chars))
    ELSE IF file_path # NoPath
    THEN ModuleOutline(EnsureFileIndexed(st, d, file_path), file_path,
                       Min(MAX_CHARS_HARD_LIMIT, max_chars))
    ELSE Answer(st, FALSE, <<>>)

\* lines 558-572: the dictionaries of the references (context is withheld)
ReferenceViews(results) ==
    [i \in 1..Len(results) |->
       [symbol |-> results[i].symbol, file_path |-> results[i].file_path,
        line |-> results[i].line, column |-> results[i].column]]

\* line 550: self._refs_by_symbol.get(symbol, [])
ReferencesOfSymbol(e, symbol) ==
    IF e.raised \/ symbol \notin DOMAIN e.st.refs_by_symbol
    THEN Answer(e.st, e.raised, <<>>)
    ELSE Answer(e.st, FALSE, ReferenceViews(e.st.refs_by_symbol[symbol]))

\* the whole reference list returned, whatever the file
ReferencesOfFileUnfiltered(e, file_path) ==
    IF e.raised THEN Answer(e.st, TRUE, <<>>)
    ELSE Answer(e.st, FALSE, ReferenceViews(e.st.references))

\* line 554: [ref for ref in self.references if ref.file_path == path]
ReferencesOfFile(e, file_path) ==
    IF e.raised THEN Answer(e.st, TRUE, <<>>)
    ELSE Answer(e.st, FALSE,
                ReferenceViews(SelectSeq(e.st.references,
                                         LAMBDA ref : ref.file_path = file_path)))

\* get_references (max_chars only cuts the withheld context)
GetReferences(st, d, symbol, file_path, max_chars) ==
    IF symbol # NoSymbol
    THEN ReferencesOfSymbol(EnsureSymbolIndexed(st, d, symbol), symbol)
    ELSE IF file_path # NoPath
    THEN ReferencesOfFile(EnsureFileIndexed(st, d, file_path), file_path)
    ELSE Answer(st, FALSE, <<>>)

\* ---- filter_symbols -----------------------------------------------------
\* the defaults of max_results and max_chars of filter_symbols
DefaultMaxResults == 50

DefaultFilterMaxChars == 500

\* `if s` on an Optional[str]: neither None nor ""
Given(s) == s # NoSymbol /\ s # ""

\* defn.type_annotation or ""
AnnotationOf(defn) ==
    IF defn.type_annotation = NoSymbol THEN "" ELSE defn.type_annotation

\* the kind compared as it is written
PassesFiltersExactKind(defn, name, kind, type_hint) ==
    /\ Given(name) => IsSubstring(Lower(name), Lower(defn.name))
    /\ Given(kind) => defn.kind = kind
    /\ Given(type_hint) => IsSubstring(Lower(type_hint), Lower(AnnotationOf(defn)))

\* lines 618-626: none of the three tests says `continue`
PassesFilters(defn, name, kind, type_hint) ==
    /\ Given(name) => IsSubstring(Lower(name), Lower(defn.name))
    /\ Given(kind) => Lower(defn.kind) = Lower(kind)
    /\ Given(type_hint) => IsSubstring(Lower(type_hint), Lower(AnnotationOf(defn)))

\* lines 636-647: the dictionary appended for a match
MatchView(defn) ==
    [name |-> defn.name, kind |-> defn.kind, type |-> defn.type_annotation,
     file_path |-> defn.file_path]

\* d.values() of a dict in insertion order
DictValues(d) == [i \in 1..Len(d) |-> d[i].v]

\* lines 610-615: the definitions the loop goes through
Candidates(st, file_path) ==
    IF file_path # NoPath
    THEN SelectSeq(DictValues(st.symbol_index),
                   LAMBDA defn : defn.file_path = file_path)
    ELSE DictValues(st.symbol_index)

\* lines 617-650: the loop over the candidates; the length of matches is
\* tested against max_results after a match was appended
RECURSIVE Accumulate(_, _, _, _, _, _)
Accumulate(candidates, name, kind, type_hint, max_results, matches) ==
    IF candidates = <<>> THEN matches
    ELSE IF ~PassesFilters(Head(candidates), name, kind, type_hint)
    THEN Accumulate(Tail(candidates), name, kind, type_hint, max_results,
                    matches)
    ELSE IF Len(matches) + 1 >= max_results
    THEN Append(matches, MatchView(Head(candidates)))
    ELSE Accumulate(Tail(candidates), name, kind, type_hint, max_results,
                    Append(matches, MatchView(Head(candidates))))

\* the matches among the definitions of the engine e.st
FilterIndexed(e, name, kind, type_hint, file_path, max_results) ==
    IF e.raised THEN Answer(e.st, TRUE, <<>>)
    ELSE Answer(e.st, FALSE,
                Accumulate(Candidates(e.st, file_path), name, kind, type_hint,
                           max_results, <<>>))

\* filter_symbols beginning, as the queries do, with a lazy scan for the name
FilterSymbolsScanning(st, d, name, kind, type_hint, file_path, max_results, max_chars) ==
    FilterIndexed(IF file_path # NoPath THEN EnsureFileIndexed(st, d, file_path)
                  ELSE IF name # NoSymbol THEN EnsureSymbolIndexed(st, d, name)
                  ELSE Outcome(st, FALSE),
                  name, kind, type_hint, file_path, max_results)

\* filter_symbols (max_chars only cuts the withheld docstrings)
FilterSymbols(st, d, name, kind, type_hint, file_path, max_results, max_chars) ==
    IF file_path # NoPath
    THEN FilterIndexed(EnsureFileIndexed(st, d, file_path), name, kind,
                       type_hint, file_path, max_results)
    ELSE FilterIndexed(Outcome(st, FALSE), name, kind, type_hint, file_path,
                       max_results)

\* ------------------------------------------------------------------------
\* The state machine
\* ------------------------------------------------------------------------
FileOnDisk(p, status) ==
    [exists |-> status # "missing", ok |-> status = "ok",
     size |-> ByteSize(p), text |-> SourceText(p)]

Disks ==
    {[p \in Paths |-> FileOnDisk(p, status[p])] :
        status \in {f \in [Paths -> {"ok", "bad", "missing"}] :
                       Cardinality({p \in Paths : f[p] # "ok"}) <= MaxFaulty}}

Call(op, symbol, file_path, max_chars, raised, result) ==
    [op |-> op, symbol |-> symbol, file_path |-> file_path,
     max_chars |-> max_chars, raised |-> raised, result |-> result]

\* a tool call of server.py: the handler's position in the engine (pc), its
\* arguments, and the files its indexing loop has still to pass to _index_file
Task(pc, op, symbol, file_path, files) ==
    [pc |-> pc, op |-> op, symbol |-> symbol, file_path |-> file_path,
     files |-> files]

Idle == Task("idle", "none", NoSymbol, NoPath, <<>>)

Tasks == 1..MaxTasks

\* the fields as __init__ sets them before discovery (lines 57-79)
NewEngine ==
    /\ all_files = <<>>
    /\ file_sizes = EmptyMap
    /\ total_bytes = 0
    /\ indexed_files = {}
    /\ outline_index = EmptyMap
    /\ symbol_index = <<>>
    /\ symbols_by_simple_name = EmptyMap
    /\ references = <<>>
    /\ refs_by_symbol = EmptyMap
    /\ node_index = EmptyMap
    /\ phase = "new"
    /\ last = Call("none", NoSymbol, NoPath, 0, FALSE, NotFound)

\* a project on disk, what the sweep of it yields, and the arguments of
\* LSPEngine(project_root, max_eager_files, max_eager_bytes)
Init ==
    /\ disk \in Disks
    /\ rglob \in SeqsUpTo(Paths, MaxFiles)
    /\ max_eager_files \in 0..MaxFiles
    /\ max_eager_bytes \in 0..MaxEagerBytes
    /\ NewEngine
    /\ tasks = [i \in Tasks |-> Idle]

Returned(r, op, symbol, file_path, max_chars) ==
    /\ Commit(r.st)
    /\ last' = Call(op, symbol, file_path, max_chars, r.raised, r.result)

NoResult(r) == Answer(r.st, r.raised, NotFound)

\* LSPEngine(project_root, max_eager_files, max_eager_bytes)
Construct ==
    /\ phase = "new"
    /\ Returned(NoResult(InitialIndex(DiscoverFiles(Self, disk, rglob), disk,
                                      max_eager_files, max_eager_bytes)),
                "construct", NoSymbol, NoPath, 0)
    /\ phase' = IF last'.raised THEN "failed" ELSE "ready"
    /\ UNCHANGED envVars

\* self._index_file(path); the engine calls it on discovered paths only
IndexFileCall(path) ==
    /\ phase = "ready"
    /\ path \in Range(all_files)
    /\ Returned(NoResult(IndexFile(Self, disk, path)), "index_file",
                NoSymbol, path, 0)
    /\ UNCHANGED <<envVars, phase>>

\* engine.get_definition_short(symbol, file_path, max_chars)
GetDefinitionShortCall(symbol, file_path, max_chars) ==
    /\ phase = "ready"
    /\ Returned(GetDefinitionShort(Self, disk, symbol, file_path, max_chars),
                "get_definition_short", symbol, file_path, max_chars)
    /\ UNCHANGED <<envVars, phase>>

\* engine.get_definition_full(symbol, file_path, max_chars)
GetDefinitionFullCall(symbol, file_path, max_chars) ==
    /\ phase = "ready"
    /\ Returned(GetDefinitionFull(Self, disk, symbol, file_path, max_chars),
                "get_definition_full", symbol, file_path, max_chars)
    /\ UNCHANGED <<envVars, phase>>

\* engine.get_outline(symbol, file_path, max_chars)
GetOutlineCall(symbol, file_path, max_chars) ==
    /\ phase = "ready"
    /\ Returned(GetOutline(Self, disk, symbol, file_path, max_chars),
                "get_outline", symbol, file_path, max_chars)
    /\ UNCHANGED <<envVars, phase>>

\* engine.get_references(symbol, file_path, max_chars)
GetReferencesCall(symbol, file_path, max_chars) ==
    /\ phase = "ready"
    /\ Returned(GetReferences(Self, disk, symbol, file_path, max_chars),
                "get_references", symbol, file_path, max_chars)
    /\ UNCHANGED <<envVars, phase>>

\* construction, _index_file and definition queries by symbol or by file
Next ==
    \/ Construct
    \/ \E path \in Paths : IndexFileCall(path)
    \/ \E symbol \in QuerySymbols \cup {NoSymbol},
          file_path \in Paths \cup {NoPath} :
            /\ symbol = NoSymbol \/ file_path = NoPath
            /\ GetDefinitionShortCall(symbol, file_path, DefaultMaxChars)

Spec == Init /\ [][Next]_vars

\* an engine whose eager subset is decided by max_eager_files alone
QueryInit == Init /\ max_eager_bytes = 0

\* the four queries, with a symbol, with a file path or with neither
QueryNext ==
    \/ Construct
    \/ \E symbol \in QuerySymbols \cup {NoSymbol},
          file_path \in Paths \cup {NoPath} :
            /\ symbol = NoSymbol \/ file_path = NoPath
            /\ \/ GetDefinitionShortCall(symbol, file_path, DefaultMaxChars)
               \/ GetDefinitionFullCall(symbol, file_path, DefaultMaxChars)
               \/ GetOutlineCall(symbol, file_path, DefaultMaxChars)
               \/ GetReferencesCall(symbol, file_path, DefaultMaxChars)

QuerySpec == QueryInit /\ [][QueryNext]_vars

\* the four queries with both a symbol and a file path
BothNext ==
    \/ Construct
    \/ \E symbol \in QuerySymbols, file_path \in Paths :
            \/ GetDefinitionShortCall(symbol, file_path, DefaultMaxChars)
            \/ GetDefinitionFullCall(symbol, file_path, DefaultMaxChars)
            \/ GetOutlineCall(symbol, file_path, DefaultMaxChars)
            \/ GetReferencesCall(symbol, file_path, DefaultMaxChars)

BothSpec == QueryInit /\ [][BothNext]_vars

\* the four queries called with symbol = "", with or without a file path
EmptyNext ==
    \/ Construct
    \/ \E file_path \in Paths \cup {NoPath} :
          \/ GetDefinitionShortCall("", file_path, DefaultMaxChars)
          \/ GetDefinitionFullCall("", file_path, DefaultMaxChars)
          \/ GetOutlineCall("", file_path, DefaultMaxChars)
          \/ GetReferencesCall("", file_path, DefaultMaxChars)

EmptySpec == QueryInit /\ [][EmptyNext]_vars

\* ---- files rewritten while the engine lives -------------------------------
\* what an editor leaves in a file:   def zz(): pass
\*                                    b = f
Rewritten ==
    FileText(<<"E">>, NoText,
             << Stmt("zz", "function", 1, <<>>),
                Stmt("b", "variable", 2, <<>>) >>,
             << NameAt("b", 2, 0), NameAt("f", 2, 4) >>)

\* the environment rewrites a file of the project after the construction
EditFile(path) ==
    /\ phase = "ready"
    /\ disk[path].exists
    /\ disk[path].text # Rewritten
    /\ Cardinality({p \in Paths : disk[p].text = Rewritten}) < MaxEdits
    /\ disk' = [disk EXCEPT ![path].text = Rewritten]
    /\ UNCHANGED <<rglob, max_eager_files, max_eager_bytes, tasks, engineVars,
                   phase, last>>

\* a project of parseable files
EditInit == QueryInit /\ \A p \in Paths : disk[p].ok

\* construction, edits of the files, _index_file and the four queries
EditNext ==
    \/ Construct
    \/ \E path \in Paths : EditFile(path)
    \/ \E path \in Paths : IndexFileCall(path)
    \/ \E symbol \in QuerySymbols \cup {NoSymbol},
          file_path \in Paths \cup {NoPath} :
            /\ symbol = NoSymbol \/ file_path = NoPath
            /\ \/ GetDefinitionShortCall(symbol, file_path, DefaultMaxChars)
               \/ GetDefinitionFullCall(symbol, file_path, DefaultMaxChars)
               \/ GetOutlineCall(symbol, file_path, DefaultMaxChars)
               \/ GetReferencesCall(symbol, file_path, DefaultMaxChars)

EditSpec == EditInit /\ [][EditNext]_vars

\* ---- filter_symbols calls ------------------------------------------------
\* a call of filter_symbols and its outcome
FilterCall(name, kind, type_hint, file_path, max_results, raised, result) ==
    [op |-> "filter_symbols", symbol |-> NoSymbol, file_path |-> file_path,
     max_chars |-> DefaultFilterMaxChars, raised |-> raised, result |-> result,
     name |-> name, kind |-> kind, type_hint |-> type_hint,
     max_results |-> max_results]

FilterReturned(r, name, kind, type_hint, file_path, max_results) ==
    /\ Commit(r.st)
    /\ last' = FilterCall(name, kind, type_hint, file_path, max_results,
                          r.raised, r.result)

\* engine.filter_symbols(name, kind, type_hint, file_path, max_results)
FilterSymbolsCall(name, kind, type_hint, file_path, max_results) ==
    /\ phase = "ready"
    /\ FilterReturned(FilterSymbols(Self, disk, name, kind, type_hint,
                                    file_path, max_results,
                                    DefaultFilterMaxChars),
                      name, kind, type_hint, file_path, max_results)
    /\ UNCHANGED <<envVars, phase>>

\* the arguments the callers pass to filter_symbols
FilterNames == {NoSymbol, "INIT"}

FilterKinds == {NoSymbol, "", "CLASS", "function"}

FilterTypeHints == {NoSymbol, "", "t"}

FilterPaths == {NoPath, PathAB, PathOutA}

FilterMaxResults == {0, 1, DefaultMaxResults}

\* a project of parseable files, all the swept files indexed eagerly
FilterInit ==
    /\ QueryInit
    /\ max_eager_files = MaxFiles
    /\ \A p \in Paths : disk[p].ok

\* construction and filter_symbols
FilterNext ==
    \/ Construct
    \/ \E name \in FilterNames, kind \in FilterKinds,
          type_hint \in FilterTypeHints, file_path \in FilterPaths,
          max_results \in FilterMaxResults :
            FilterSymbolsCall(name, kind, type_hint, file_path, max_results)

FilterSpec == FilterInit /\ [][FilterNext]_vars

\* filter_symbols on an engine that indexed nothing at construction
LazyFilterInit == QueryInit /\ max_eager_files = 0

LazyFilterNext ==
    \/ Construct
    \/ \E name \in FilterNames, file_path \in FilterPaths :
          FilterSymbolsCall(name, NoSymbol, NoSymbol, file_path,
                            DefaultMaxResults)

LazyFilterSpec == LazyFilterInit /\ [][LazyFilterNext]_vars

\* ---- tool calls in flight (server.py) --------------------------------------
\* lines 167-168 of _index_file: the outline stored and the file marked
MarkIndexed(st, file_path, parsed) ==
    [st EXCEPT !.outline_index = MapSet(@, file_path, parsed.module_node),
               !.indexed_files = @ \cup {file_path}]

\* lines 170-171 of _index_file
RegisterNodes(st, parsed) ==
    [st EXCEPT !.node_index = RegisterOutlineNode(@, parsed.module_node)]

\* a handler is between line 168 and the end of _index_file
Registering == {"marked", "nodes", "definitions"}

\* the handlers are coroutines without an await (server.py:105-239): the
\* event loop starts one when no other has begun and not yet returned
LoopFreeAlways(ts) == TRUE

LoopFree(ts) == \A j \in Tasks : ts[j].pc \in {"idle", "pending"}

\* the files a call has to pass to _index_file: the scan order of
\* _ensure_symbol_indexed, or the path of _ensure_file_indexed
FilesToIndex(st, symbol, file_path) ==
    IF symbol # NoSymbol
    THEN IF IsKnown(st, symbol) THEN <<>>
         ELSE SortedBy(Remaining(st), Score(st, symbol))
    ELSE IF file_path = NoPath \/ file_path \in st.indexed_files THEN <<>>
    ELSE <<file_path>>

\* lines 229-234 of _ensure_file_indexed
Discovered(st, d, symbol, file_path) ==
    IF symbol # NoSymbol \/ file_path = NoPath
       \/ file_path \in st.indexed_files \/ file_path \in Range(st.all_files)
    THEN st
    ELSE [st EXCEPT !.all_files = Append(@, file_path),
                    !.file_sizes = MapSet(@, file_path, StatSize(d, file_path))]

\* the loop of _ensure_symbol_indexed after one _index_file: test, break
FilesAfter(st, symbol, files) ==
    IF symbol # NoSymbol /\ IsKnown(st, symbol) THEN <<>> ELSE Tail(files)

\* the answer of the engine method of a tool
ToolAnswer(st, d, op, symbol, file_path) ==
    IF op = "get_definition_short"
    THEN GetDefinitionShort(st, d, symbol, file_path, DefaultMaxChars)
    ELSE GetReferences(st, d, symbol, file_path, DefaultMaxChars)

\* a client sends a tool call while others may be in flight
ToolCall(i, op, symbol, file_path) ==
    /\ phase = "ready"
    /\ tasks[i].pc = "idle"
    /\ tasks' = [tasks EXCEPT ![i] = Task("pending", op, symbol, file_path, <<>>)]
    /\ UNCHANGED <<worldVars, engineVars, phase, last>>

\* the event loop starts the handler, which enters the engine method
Begin(i) ==
    /\ tasks[i].pc = "pending"
    /\ LoopFree(tasks)
    /\ Commit(Discovered(Self, disk, tasks[i].symbol, tasks[i].file_path))
    /\ tasks' = [tasks EXCEPT ![i].pc = "scan",
                              ![i].files = FilesToIndex(Self, tasks[i].symbol,
                                                        tasks[i].file_path)]
    /\ UNCHANGED <<worldVars, phase, last>>

\* _index_file up to line 168: the early returns, the parse, the mark
IndexStep(i) ==
    /\ tasks[i].pc = "scan"
    /\ tasks[i].files # <<>>
    /\ IF Head(tasks[i].files) \in indexed_files
          \/ ~disk[Head(tasks[i].files)].exists
       THEN /\ tasks' = [tasks EXCEPT ![i].files =
                            FilesAfter(Self, tasks[i].symbol, tasks[i].files)]
            /\ UNCHANGED <<engineVars, last>>
       ELSE IF ParsePythonFile(Head(tasks[i].files), project_root, disk).raised
       THEN /\ tasks' = [tasks EXCEPT ![i] = Idle]
            /\ last' = Call(tasks[i].op, tasks[i].symbol, tasks[i].file_path,
                            DefaultMaxChars, TRUE, NotFound)
            /\ UNCHANGED engineVars
       ELSE /\ Commit(MarkIndexed(Self, Head(tasks[i].files),
                                  ParsePythonFile(Head(tasks[i].files), project_root, disk)))
            /\ tasks' = [tasks EXCEPT ![i].pc = "marked"]
            /\ UNCHANGED last
    /\ UNCHANGED <<worldVars, phase>>

\* lines 170-171
RegisterNodesStep(i) ==
    /\ tasks[i].pc = "marked"
    /\ Commit(RegisterNodes(Self, ParsePythonFile(Head(tasks[i].files), project_root, disk)))
    /\ tasks' = [tasks EXCEPT ![i].pc = "nodes"]
    /\ UNCHANGED <<worldVars, phase, last>>

\* lines 174-175
RegisterDefinitionsStep(i) ==
    /\ tasks[i].pc = "nodes"
    /\ Commit(RegisterDefinitions(
                  Self, ParsePythonFile(Head(tasks[i].files), project_root,
                                        disk).definitions))
    /\ tasks' = [tasks EXCEPT ![i].pc = "definitions"]
    /\ UNCHANGED <<worldVars, phase, last>>

\* lines 178-179, and back in the caller of _index_file
RegisterReferencesStep(i) ==
    /\ tasks[i].pc = "definitions"
    /\ Commit(RegisterReferences(
                  Self, ParsePythonFile(Head(tasks[i].files), project_root,
                                        disk).references))
    /\ tasks' = [tasks EXCEPT ![i].pc = "scan",
                              ![i].files = FilesAfter(Self', tasks[i].symbol,
                                                      tasks[i].files)]
    /\ UNCHANGED <<worldVars, phase, last>>

\* the engine method reads its answer from the index and the handler returns
Return(i) ==
    /\ tasks[i].pc = "scan"
    /\ tasks[i].files = <<>>
    /\ last' = Call(tasks[i].op, tasks[i].symbol, tasks[i].file_path,
                    DefaultMaxChars,
                    ToolAnswer(Self, disk, tasks[i].op, tasks[i].symbol,
                               tasks[i].file_path).raised,
                    ToolAnswer(Self, disk, tasks[i].op, tasks[i].symbol,
                               tasks[i].file_path).result)
    /\ tasks' = [tasks EXCEPT ![i] = Idle]
    /\ UNCHANGED <<worldVars, engineVars, phase>>

ToolOps == {"get_definition_short", "get_references"}
ToolSymbols == {"b", "zz"}
ToolPaths == {PathOutA}

\* a server whose engine indexes nothing eagerly
ConcInit == Init /\ max_eager_files = 0 /\ max_eager_bytes = 0

\* main() constructs the engine, then the tools are called
ConcNext ==
    \/ Construct
    \/ \E i \in Tasks, op \in ToolOps, symbol \in ToolSymbols \cup {NoSymbol},
          file_path \in ToolPaths \cup {NoPath} :
            /\ (symbol = NoSymbol) # (file_path = NoPath)
            /\ ToolCall(i, op, symbol, file_path)
    \/ \E i \in Tasks : Begin(i)
    \/ \E i \in Tasks : IndexStep(i)
    \/ \E i \in Tasks : RegisterNodesStep(i)
    \/ \E i \in Tasks : RegisterDefinitionsStep(i)
    \/ \E i \in Tasks : RegisterReferencesStep(i)
    \/ \E i \in Tasks : Return(i)

ConcSpec == ConcInit /\ [][ConcNext]_vars

\* ---- long texts: the truncating views ----------------------------------
\* lengths of the docstrings and sources, around the hard limit
TextLengths == {0, 2, 1500, 1501}

\* values of max_chars the callers pass, around 0 and around the hard limit
MaxCharsArgs == {-1, 0, 1, 2, 1500, 5000}

Repeat(c, n) == [i \in 1..n |-> c]

\* the docstrings of the class: None, or a text of a given length
Docstrings == {NoText} \cup {Text(Repeat("c", n)) : n \in TextLengths}

\* the docstrings of its constructor
InitDocstrings == {NoText, Text(Repeat("i", 2)), Text(Repeat("i", 1501))}

\* /r/a.py:        class C:
\*                     <doc>
\*                     def __init__(self): <init_doc>
\*                     def f(self): pass
\* with the text of the class statement of the given length
LongText(doc, init_doc, length) ==
    FileText(Repeat("s", length) \o <<"\n">>, NoText,
             << [Stmt("C", "class", 1,
                      << [Stmt("__init__", "function", 3, <<>>)
                            EXCEPT !.doc = init_doc, !.source = <<"I">>],
                         Stmt("f", "function", 4, <<>>) >>)
                   EXCEPT !.doc = doc, !.source = Repeat("s", length)] >>,
             <<>>)

LongDisk(doc, init_doc, length) ==
    [p \in Paths |->
        IF p = PathA
        THEN [FileOnDisk(p, "ok") EXCEPT !.text = LongText(doc, init_doc, length)]
        ELSE FileOnDisk(p, "ok")]

\* a project of the single file /r/a.py, indexed at construction
TruncInit ==
    /\ NewEngine
    /\ \E doc \in Docstrings, init_doc \in InitDocstrings,
          length \in TextLengths : disk = LongDisk(doc, init_doc, length)
    /\ rglob = <<PathA>>
    /\ max_eager_files = 1
    /\ max_eager_bytes = 0
    /\ tasks = [i \in Tasks |-> Idle]

\* the class by its name and the module by its file, in the three views
TruncNext ==
    \/ Construct
    \/ \E max_chars \in MaxCharsArgs :
          \/ GetDefinitionShortCall("C", NoPath, max_chars)
          \/ GetDefinitionShortCall(NoSymbol, PathA, max_chars)
          \/ GetDefinitionFullCall("C", NoPath, max_chars)
          \/ GetDefinitionFullCall(NoSymbol, PathA, max_chars)
          \/ GetOutlineCall("C", NoPath, max_chars)
          \/ GetOutlineCall(NoSymbol, PathA, max_chars)

TruncSpec == TruncInit /\ [][TruncNext]_vars

\* ---- files with nested declarations ---------------------------------------
ParseNames == {"g", "x"}

\* a declaration without a body of its own
Leaves ==
    {Stmt(n, k, 3, <<>>) : n \in ParseNames,
                           k \in {"class", "function", "variable"}}

\* what a class or a function holds: a declaration, or a class or function
\* h holding one
Inner ==
    Leaves \cup {Stmt("h", k, 2, <<leaf>>) : k \in {"class", "function"},
                                             leaf \in Leaves}

\* a module body: a class or function g, then a statement that declares g
\* again, declares x, or declares nothing
NestedBodies ==
    {<<Stmt("g", k, 1, <<inner>>), second>> :
        k \in {"class", "function"}, inner \in Inner,
        second \in {Stmt("g", "variable", 9, <<>>),
                    Stmt("x", "function", 9, <<>>),
                    Stmt("", "expr", 9, <<>>)}}

NestedDisk(body) ==
    [p \in Paths |->
        [FileOnDisk(p, "ok") EXCEPT !.text = FileText(<<"N">>, NoText, body, <<>>)]]

\* a project of one file with nested declarations, in the root, below it or
\* outside it
ParseInit ==
    /\ NewEngine
    /\ \E body \in NestedBodies : disk = NestedDisk(body)
    /\ \E p \in Paths : rglob = <<p>>
    /\ max_eager_files \in {0, 1}
    /\ max_eager_bytes = 0
    /\ tasks = [i \in Tasks |-> Idle]

ParseNext ==
    \/ Construct
    \/ \E path \in Paths : IndexFileCall(path)

ParseSpec == ParseInit /\ [][ParseNext]_vars

\* ------------------------------------------------------------------------
\* Properties
\* ------------------------------------------------------------------------
RECURSIVE SumOver(_, _)
SumOver(S, f) ==
    IF S = {} THEN 0
    ELSE LET x == CHOOSE y \in S : TRUE
         IN f[x] + SumOver(S \ {x}, f)

\* what parse_python_file returns for a file of the current disk
Parsed(p) == ParsePythonFile(p, project_root, disk)

\* number of definitions with simple name n that parsing p yields
DefinitionCount(p, n) ==
    Cardinality({i \in 1..Len(Parsed(p).definitions) :
                    Parsed(p).definitions[i].v.name = n})

\* every reference and every definition of an indexed file is registered
\* exactly once
RegisteredOnce ==
    /\ Len(references) =
          SumOver(indexed_files, [p \in indexed_files |-> Len(Parsed(p).references)])
    /\ \A n \in DOMAIN symbols_by_simple_name :
          Len(symbols_by_simple_name[n]) =
             SumOver(indexed_files,
                     [p \in indexed_files |-> DefinitionCount(p, n)])
    /\ \A n \in DOMAIN refs_by_symbol :
          Len(refs_by_symbol[n]) =
             Cardinality({i \in 1..Len(references) : references[i].symbol = n})

\* C1: _index_file(p) for a file p that is already in the indexed set leaves
\* the outline map, the symbol table, the collision table, the node index,
\* both reference tables and the indexed set unchanged, and no definition
\* or reference of an indexed file is ever registered twice.
C1_IndexFileIdempotent ==
    /\ []RegisteredOnce
    /\ [][(last'.op = "index_file" /\ last'.file_path \in indexed_files)
            => UNCHANGED indexVars]_vars

\* the discovery sweep yielded an indexed file twice, so that the eager
\* loop called _index_file on it when it was already indexed
C1_Witness ==
    /\ phase = "ready"
    /\ last.op = "construct"
    /\ \E i, j \in 1..Len(all_files) :
          /\ i < j
          /\ all_files[i] = all_files[j]
          /\ all_files[i] \in indexed_files
          /\ Len(references) > 0

\* ---- construction: the eager subset ------------------------------------
JustConstructed == phase = "ready" /\ last.op = "construct"

\* F <= max_eager_files and B <= max_eager_bytes for the swept project
UnderThresholds ==
    /\ Len(rglob) <= max_eager_files
    /\ total_bytes <= max_eager_bytes

\* the simple and qualified names the parseable files of S define
DefinedSymbols(S) ==
    UNION {{Parsed(p).definitions[i].v.name : i \in 1..Len(Parsed(p).definitions)}
           \cup {Parsed(p).definitions[i].k : i \in 1..Len(Parsed(p).definitions)} :
           p \in {q \in S : disk[q].exists /\ disk[q].ok}}

\* no query for a symbol the swept project defines indexes a file
NoLazyIndexing ==
    \A s \in DefinedSymbols(Range(rglob)) :
        GetDefinitionShort(Self, disk, s, NoPath, DefaultMaxChars).st.indexed_files = indexed_files

\* C2 as stated: under both thresholds every discovered file is indexed after
\* construction and no later query for a project symbol indexes a file.
C2_AsStated ==
    (phase = "ready" /\ UnderThresholds) =>
        /\ Range(rglob) \subseteq indexed_files
        /\ NoLazyIndexing

\* C2 (amended): under both thresholds every discovered file that exists on
\* disk is indexed after construction (a discovered path without a file, the
\* target of a broken symlink, stays unindexed), and no later query for a
\* symbol defined in the project indexes a file.
C2_EagerThreshold ==
    (phase = "ready" /\ UnderThresholds) =>
        /\ \A p \in Range(rglob) : disk[p].exists => p \in indexed_files
        /\ NoLazyIndexing

\* a project of two distinct files under both thresholds, fully indexed, after
\* a query for one of its symbols
C2_Witness ==
    /\ phase = "ready"
    /\ UnderThresholds
    /\ Cardinality(Range(rglob)) = 2
    /\ Range(rglob) \subseteq indexed_files
    /\ last.op = "get_definition_short"
    /\ last.symbol \in DefinedSymbols(Range(rglob))
    /\ last.result.found

\* the arrangements of a list
RECURSIVE Arrangements(_)
Arrangements(s) ==
    IF s = <<>> THEN {<<>>}
    ELSE UNION {{<<s[i]>> \o t :
                   t \in Arrangements(SubSeq(s, 1, i - 1) \o SubSeq(s, i + 1, Len(s)))} :
                i \in 1..Len(s)}

AscendingBySize(s) ==
    \A i, j \in 1..Len(s) : i < j => file_sizes[s[i]] <= file_sizes[s[j]]

\* the sets made of the first n files of the discovered files in an
\* ascending-size order
SmallestFiles(n) ==
    {{t[i] : i \in 1..(IF n < Len(t) THEN n ELSE Len(t))} :
        t \in {u \in Arrangements(all_files) : AscendingBySize(u)}}

\* C3 as stated: over a threshold, the files indexed at construction are
\* exactly the first max_eager_files files in ascending-size order.
C3_AsStated ==
    (JustConstructed /\ ~UnderThresholds) =>
        /\ indexed_files \in SmallestFiles(max_eager_files)
        /\ Cardinality(indexed_files) <= max_eager_files
        /\ max_eager_files = 0 => indexed_files = {}

\* C3 (amended): over a threshold, the files indexed at construction are
\* exactly those of the first max_eager_files files in ascending-size order
\* that exist on disk; so at most max_eager_files, and none when it is 0.
C3_EagerSubset ==
    (JustConstructed /\ ~UnderThresholds) =>
        /\ \E S \in SmallestFiles(max_eager_files) :
              indexed_files = {p \in S : disk[p].exists}
        /\ Cardinality(indexed_files) <= max_eager_files
        /\ max_eager_files = 0 => indexed_files = {}

\* two files of different sizes swept largest first, one eager slot: the
\* smaller one is indexed
C3_Witness ==
    /\ JustConstructed
    /\ ~UnderThresholds
    /\ max_eager_files = 1
    /\ Len(all_files) = 2
    /\ file_sizes[all_files[1]] > file_sizes[all_files[2]]
    /\ indexed_files = {all_files[2]}

\* C4: the cached sizes of the files indexed during construction sum to at
\* most max_eager_bytes.
C4_EagerBytesBounded ==
    last.op = "construct" =>
        SumOver(indexed_files, file_sizes) <= max_eager_bytes

\* ---- lazy indexing and parse failures ----------------------------------
\* C5: a definition query for a symbol that some discovered parseable file
\* defines returns a result, whatever the eager limits; a file defining the
\* symbol is indexed afterwards and the result's file is a discovered,
\* indexed file.
C5_LazyCorrect ==
    (/\ last.op = "get_definition_short"
     /\ last.symbol \in DefinedSymbols(Range(all_files))) =>
        /\ ~last.raised
        /\ last.result.found
        /\ last.result.file_path \in Range(all_files) \cap indexed_files
        /\ \E p \in indexed_files : last.symbol \in DefinedSymbols({p})

\* C6: when a file of the eager subset cannot be parsed, construction still
\* completes and every other file of the eager subset is indexed.
C6_EagerSurvivesParseFailure ==
    last.op = "construct" =>
        /\ phase = "ready"
        /\ \A p \in Range(EagerList(Self, max_eager_files, max_eager_bytes)) :
              (disk[p].exists /\ disk[p].ok) => p \in indexed_files

\* nothing of an unparsable file is in the index
NoTraceOfUnparsable ==
    \A p \in Paths :
        ~disk[p].ok =>
            /\ p \notin indexed_files
            /\ p \notin DOMAIN outline_index
            /\ \A i \in 1..Len(symbol_index) : symbol_index[i].v.file_path # p
            /\ \A i \in 1..Len(references) : references[i].file_path # p
            /\ \A q \in DOMAIN node_index : node_index[q].symbol.file_path # p

\* a call that is one _index_file(p), directly or through a file-path query
IsIndexFileOf(call) ==
    \/ call.op = "index_file"
    \/ call.op = "get_definition_short" /\ call.symbol = NoSymbol

\* C7: when _index_file(p) fails because p cannot be parsed, the outline
\* map, the symbol table, the collision table, the node index, the reference
\* tables and the indexed set are exactly as before the call, and p is not
\* in the indexed set.
C7_ParseFailureKeepsState ==
    /\ []NoTraceOfUnparsable
    /\ [][(IsIndexFileOf(last') /\ last'.raised)
            => (UNCHANGED indexVars /\ last'.file_path \notin indexed_files')]_vars

\* _index_file raised on an unparsable file of an engine with a non-empty index
C7_Witness ==
    /\ last.op = "index_file"
    /\ last.raised
    /\ ~disk[last.file_path].ok
    /\ indexed_files # {}
    /\ Len(symbol_index) > 0

\* the disk with every unparsable file replaced by an empty module
EmptiedDisk ==
    [p \in Paths |->
        IF disk[p].exists /\ ~disk[p].ok
        THEN [disk[p] EXCEPT !.ok = TRUE,
                             !.text = FileText(<<>>, NoText, <<>>, <<>>)]
        ELSE disk[p]]

\* C8: a definition query whose lazy scan reaches an unparsable file does not
\* raise and returns what it would return if that file had no declarations.
C8_UnparsableAsEmpty ==
    phase = "ready" =>
        \A s \in QuerySymbols :
            /\ ~GetDefinitionShort(Self, disk, s, NoPath, DefaultMaxChars).raised
            /\ GetDefinitionShort(Self, disk, s, NoPath, DefaultMaxChars).result
                 = GetDefinitionShort(Self, EmptiedDisk, s, NoPath, DefaultMaxChars).result

\* ---- the symbol table --------------------------------------------------
\* C9: every definition produced by parsing an indexed file is the one the
\* symbol table stores under its qualified name (no two definitions from
\* different files share a qualified name).
C9_QualifiedNamesUnique ==
    \A p \in indexed_files :
        \A i \in 1..Len(Parsed(p).definitions) :
            /\ Parsed(p).definitions[i].k \in DictKeys(symbol_index)
            /\ DictValue(symbol_index, Parsed(p).definitions[i].k)
                 = Parsed(p).definitions[i].v

\* C10: once the symbol table maps q to a definition d, it maps q to d in
\* every later state.
C10_DefinitionsImmutable ==
    [][\A q \in DictKeys(symbol_index) :
          /\ q \in DictKeys(symbol_index')
          /\ DictValue(symbol_index', q) = DictValue(symbol_index, q)]_vars

\* ---- collisions of simple names ------------------------------------------
\* some definition of a parse result is a function of simple name n
DefinesFunction(definitions, n) ==
    \E i \in 1..Len(definitions) :
        definitions[i].v.name = n /\ definitions[i].v.kind = "function"

\* the parseable files among S that define a function of simple name n
FunctionFiles(S, n) ==
    {p \in S : /\ disk[p].exists /\ disk[p].ok
               /\ DefinesFunction(Parsed(p).definitions, n)}

\* what get_definition_short(symbol=n) returns in the current state
ShortBySymbol(n) == GetDefinitionShort(Self, disk, n, NoPath, DefaultMaxChars)

\* C11: when two files each define a function of simple name n,
\* get_definition_short(symbol=n) returns a definition whose file is one of
\* the two, and once n resolves every later call returns the same file.
C11_CollisionStable ==
    [][\A n \in QuerySymbols :
          Cardinality(FunctionFiles(Range(all_files'), n)) = 2 =>
             /\ (/\ last'.op = "get_definition_short"
                 /\ last'.symbol = n
                 /\ ~last'.raised) =>
                    /\ last'.result.found
                    /\ last'.result.file_path
                          \in FunctionFiles(Range(all_files'), n)
             /\ IsKnown(Self, n) =>
                    ShortBySymbol(n)'.result.file_path
                       = ShortBySymbol(n).result.file_path]_vars

\* the qualified names of a parse result's definitions of simple name n, in
\* the order of the definitions dict
QualifiedNamesOf(definitions, n) ==
    SelectSeq(definitions, LAMBDA e : e.v.name = n)

\* a symbol query that returned answered with the definition stored under
\* the symbol itself when it is a key of the symbol table, else with the one
\* stored under the first entry of its collision list, else with None
AnsweredByResolution ==
    (/\ last.op = "get_definition_short"
     /\ last.symbol # NoSymbol
     /\ ~last.raised) =>
        IF last.symbol \in DictKeys(symbol_index)
        THEN last.result = ShortView(DictValue(symbol_index, last.symbol),
                                     last.max_chars)
        ELSE IF last.symbol \in DOMAIN symbols_by_simple_name
        THEN last.result =
               ShortView(DictValue(symbol_index,
                                   symbols_by_simple_name[last.symbol][1]),
                         last.max_chars)
        ELSE ~last.result.found

\* the first entry of a collision list is never displaced
FirstEntryKept ==
    \A n \in DOMAIN symbols_by_simple_name :
        /\ n \in DOMAIN symbols_by_simple_name'
        /\ symbols_by_simple_name'[n][1] = symbols_by_simple_name[n][1]

\* a collision list created by the indexing of one file starts with the first
\* definition of that simple name in the file
FirstEntryFromFirstFile ==
    \A n \in DOMAIN symbols_by_simple_name' \ DOMAIN symbols_by_simple_name :
        \A p \in indexed_files' \ indexed_files :
            indexed_files' = indexed_files \cup {p} =>
                symbols_by_simple_name'[n][1]
                    = QualifiedNamesOf(Parsed(p).definitions, n)[1].k

\* C12: _resolve_symbol_qualified_name(name) is name itself when name is a key
\* of the symbol table; otherwise the first entry of name's collision list,
\* which is the qualified name registered earliest for that simple name;
\* otherwise it is unresolved.
C12_ResolveOrder ==
    /\ []AnsweredByResolution
    /\ [][FirstEntryKept /\ FirstEntryFromFirstFile]_vars

\* a query for a simple name with two different entries in its collision
\* list, answered with the definition of the first entry
C12_Witness ==
    /\ last.op = "get_definition_short"
    /\ last.result.found
    /\ last.symbol \notin DictKeys(symbol_index)
    /\ last.symbol \in DOMAIN symbols_by_simple_name
    /\ Len(symbols_by_simple_name[last.symbol]) = 2
    /\ symbols_by_simple_name[last.symbol][1]
          # symbols_by_simple_name[last.symbol][2]
    /\ last.result.file_path
          # DictValue(symbol_index, symbols_by_simple_name[last.symbol][2]).file_path

\* ---- truncation ----------------------------------------------------------
\* the definition a definition query of the last call answered with
LastDefinition ==
    IF last.symbol # NoSymbol
    THEN DictValue(symbol_index, ResolveSymbolQualifiedName(Self, last.symbol))
    ELSE outline_index[last.file_path].symbol

\* the outline node whose children the last get_outline call returned
LastNode ==
    IF last.symbol # NoSymbol
    THEN node_index[ResolveSymbolQualifiedName(Self, last.symbol)]
    ELSE outline_index[last.file_path]

\* returned is text cut somewhere, followed by the marker
CutWith(text, returned, marker) ==
    /\ Len(returned) >= Len(marker)
    /\ Len(returned) - Len(marker) <= Len(text)
    /\ returned = SubSeq(text, 1, Len(returned) - Len(marker)) \o marker

\* a returned docstring is at most min(k, 1500) characters plus the marker,
\* and carries the marker exactly when the docstring was longer than that
DocBounded(doc, returned, k) ==
    IF ~doc.some THEN returned = doc
    ELSE /\ returned.some
         /\ Len(returned.chars) <= Min(k, MAX_CHARS_HARD_LIMIT) + 1
         /\ IF Len(doc.chars) > Min(k, MAX_CHARS_HARD_LIMIT)
            THEN CutWith(doc.chars, returned.chars, <<Ellipsis>>)
            ELSE returned = doc

\* for k < 0: a non-empty docstring loses its last -k characters and gets the
\* marker, an empty or absent one is returned as it is
DocCutFromEnd(doc, returned, k) ==
    IF ~doc.some \/ doc.chars = <<>> THEN returned = doc
    ELSE /\ returned.some
         /\ CutWith(doc.chars, returned.chars, <<Ellipsis>>)
         /\ Len(returned.chars) - 1 =
               (IF Len(doc.chars) + k > 0 THEN Len(doc.chars) + k ELSE 0)

DocReturned(doc, returned, k, anyInteger) ==
    IF anyInteger \/ k >= 0 THEN DocBounded(doc, returned, k)
    ELSE DocCutFromEnd(doc, returned, k)

\* both docstrings of a view
ViewBounded(defn, view, k, anyInteger) ==
    /\ DocReturned(defn.docstring, view.docstring, k, anyInteger)
    /\ DocReturned(defn.init_docstring, view.init_docstring, k, anyInteger)

RECURSIVE NodesBounded(_, _, _, _)
NodesBounded(nodes, views, k, anyInteger) ==
    /\ Len(views) = Len(nodes)
    /\ \A i \in 1..Len(nodes) :
          /\ ViewBounded(nodes[i].symbol, views[i], k, anyInteger)
          /\ NodesBounded(nodes[i].children, views[i].children, k, anyInteger)

TruncatedDocstrings(anyInteger) ==
    /\ (last.op = "get_definition_short" /\ last.result.found) =>
          ViewBounded(LastDefinition, last.result, last.max_chars, anyInteger)
    /\ (last.op = "get_outline" /\ last.result # <<>>) =>
          NodesBounded(LastNode.children, last.result, last.max_chars,
                       anyInteger)

\* C13 as stated: for any integer k the docstrings returned by
\* get_definition_short and by every node of get_outline have length at most
\* min(k, 1500) plus the marker, which is appended iff the text was longer.
C13_AsStated == TruncatedDocstrings(TRUE)

\* C13 (amended): for any k >= 0 the docstring and constructor docstring
\* returned by get_definition_short and by every node of get_outline have
\* length at most min(k, 1500) plus the one-character marker, appended iff the
\* text was longer than min(k, 1500); for k < 0 a non-empty text loses its
\* last -k characters and gets the marker.
C13_TruncationBound == TruncatedDocstrings(FALSE)

\* a docstring of 1501 characters asked for with a bound above the hard limit
\* and returned cut to 1500 characters plus the marker
C13_Witness ==
    /\ last.op = "get_definition_short"
    /\ last.max_chars > MAX_CHARS_HARD_LIMIT
    /\ last.result.found
    /\ LastDefinition.docstring.some
    /\ Len(LastDefinition.docstring.chars) = MAX_CHARS_HARD_LIMIT + 1
    /\ Len(last.result.docstring.chars) = MAX_CHARS_HARD_LIMIT + 1
    /\ last.result.docstring # LastDefinition.docstring

\* the source of a definition as a str: full_source or ""
SourceOf(defn) == IF defn.full_source.some THEN defn.full_source.chars ELSE <<>>

\* a returned source is the source cut to min(k, 1500) characters followed by
\* the marker when it was longer than that, else the source itself
SourceBounded(source, returned, k, marker) ==
    /\ Len(returned) <= Min(k, MAX_CHARS_HARD_LIMIT) + Len(marker)
    /\ IF Len(source) > Min(k, MAX_CHARS_HARD_LIMIT)
       THEN /\ CutWith(source, returned, marker)
            /\ Len(returned) = Min(k, MAX_CHARS_HARD_LIMIT) + Len(marker)
       ELSE returned = source

\* for k < 0: the source loses its last -k characters and gets the marker
SourceCutFromEnd(source, returned, k, marker) ==
    /\ CutWith(source, returned, marker)
    /\ Len(returned) - Len(marker) =
          (IF Len(source) + k > 0 THEN Len(source) + k ELSE 0)

FullViewOf(defn, view, k, marker) ==
    /\ view.docstring = defn.docstring
    /\ view.init_docstring = defn.init_docstring
    /\ IF k >= 0 THEN SourceBounded(SourceOf(defn), view.source, k, marker)
       ELSE SourceCutFromEnd(SourceOf(defn), view.source, k, marker)

\* C14 as stated: get_definition_full returns the source cut to
\* min(maxChars, 1500) characters with the trailing marker U+2026 "(truncated)"
\* exactly when the source was longer, so at most min(maxChars, 1500) plus the
\* 12 characters of that marker; the docstrings are returned untruncated.
C14_AsStated ==
    (last.op = "get_definition_full" /\ last.result.found /\ last.max_chars >= 0)
        => FullViewOf(LastDefinition, last.result, last.max_chars,
                      Tail(TruncatedMarker))

\* C14 (amended): for maxChars >= 0 get_definition_full returns the source cut
\* to min(maxChars, 1500) characters followed by the 13 characters of a line
\* feed and U+2026 "(truncated)" exactly when the source was longer, so at most
\* min(maxChars, 1500) + 13 characters; for maxChars < 0 the source loses its
\* last -maxChars characters and gets the same marker; the docstrings are
\* returned untruncated.
C14_FullSourceBound ==
    (last.op = "get_definition_full" /\ last.result.found)
        => FullViewOf(LastDefinition, last.result, last.max_chars,
                      TruncatedMarker)

\* a source of 1501 characters asked for with a bound above the hard limit and
\* returned as 1500 characters and the marker, beside an uncut docstring of
\* 1501 characters
C14_Witness ==
    /\ last.op = "get_definition_full"
    /\ last.max_chars > MAX_CHARS_HARD_LIMIT
    /\ last.result.found
    /\ Len(SourceOf(LastDefinition)) = MAX_CHARS_HARD_LIMIT + 1
    /\ Len(last.result.source) = MAX_CHARS_HARD_LIMIT + Len(TruncatedMarker)
    /\ last.result.docstring.some
    /\ Len(last.result.docstring.chars) = MAX_CHARS_HARD_LIMIT + 1

\* ---- the arguments of the queries ----------------------------------------
\* the query op of the engine st with the given arguments
Query(op, st, d, symbol, file_path, max_chars) ==
    CASE op = "get_definition_short" ->
           GetDefinitionShort(st, d, symbol, file_path, max_chars)
      [] op = "get_definition_full" ->
           GetDefinitionFull(st, d, symbol, file_path, max_chars)
      [] op = "get_outline" ->
           GetOutline(st, d, symbol, file_path, max_chars)
      [] op = "get_references" ->
           GetReferences(st, d, symbol, file_path, max_chars)

\* the step made is the one the call r makes
SameCall(r) ==
    /\ Commit(r.st)
    /\ last'.raised = r.raised
    /\ last'.result = r.result

\* C15: a query given both a symbol and a file path returns what the same
\* query returns with the symbol alone and leaves the engine as that query
\* leaves it: the file path is not used for resolution and the file it names
\* is not indexed on account of being named.
C15_SymbolPrecedence ==
    [][(last'.symbol # NoSymbol /\ last'.file_path # NoPath) =>
          SameCall(Query(last'.op, Self, disk, last'.symbol, NoPath,
                         last'.max_chars))]_vars

\* a query for a symbol that does not resolve, naming an existing parseable
\* file that is not indexed: nothing is returned and the file stays unindexed
C15_Witness ==
    /\ last.op \in {"get_definition_full", "get_outline"}
    /\ last.symbol = "zz"
    /\ last.file_path # NoPath
    /\ disk[last.file_path].exists /\ disk[last.file_path].ok
    /\ last.file_path \notin indexed_files
    /\ ~last.raised
    /\ indexed_files # {}

\* ---- not found ------------------------------------------------------------
QueryOps == {"get_definition_short", "get_definition_full", "get_outline",
             "get_references"}

\* None for a definition query, the empty list for the other two
Absent(call) ==
    IF call.op \in {"get_definition_short", "get_definition_full"}
    THEN ~call.result.found
    ELSE call.result = <<>>

\* the references registered under a name, as get_references returns them
RegisteredReferences(st, symbol) ==
    IF symbol \in DOMAIN st.refs_by_symbol
    THEN ReferenceViews(st.refs_by_symbol[symbol])
    ELSE <<>>

\* no discovered file is on disk with a content that cannot be parsed
NoneUnparsable(files) ==
    \A i \in 1..Len(files) : disk[files[i]].exists => disk[files[i]].ok

\* the call was made with no symbol and with no file path or with the path
\* of no file
NamesNothing(call) ==
    /\ call.op \in QueryOps
    /\ call.symbol = NoSymbol
    /\ call.file_path = NoPath \/ ~disk[call.file_path].exists

\* the outcome of a call that left the engine st, when nothing is found
NotFoundOutcome(call, st, emptyReferences) ==
    (call.op \in QueryOps /\ NoneUnparsable(st.all_files)) =>
        /\ (/\ call.symbol # NoSymbol
            /\ ResolveSymbolQualifiedName(st, call.symbol) = NoSymbol) =>
               /\ ~call.raised
               /\ IF call.op = "get_references" /\ ~emptyReferences
                  THEN call.result = RegisteredReferences(st, call.symbol)
                  ELSE Absent(call)
        /\ NamesNothing(call) => (~call.raised /\ Absent(call))

\* C16 as stated: with every discovered file parseable, a query with an
\* unresolvable symbol, with the path of no file or with neither returns the
\* absent result (None, or an empty list for get_outline and get_references)
\* and does not raise; in the last two cases the index is left unchanged.
C16_AsStated ==
    [][/\ NotFoundOutcome(last', Self', TRUE)
       /\ NamesNothing(last') => UNCHANGED indexVars]_vars

\* C16 (amended): as stated, except that get_references with a symbol that
\* does not resolve returns the references registered under that name, which
\* is the empty list only when no indexed file uses the name.
C16_NotFoundNormal ==
    [][/\ NotFoundOutcome(last', Self', FALSE)
       /\ NamesNothing(last') => UNCHANGED indexVars]_vars

\* get_references for a name no file defines and an indexed file uses
C16_Witness ==
    /\ last.op = "get_references"
    /\ last.symbol # NoSymbol
    /\ ResolveSymbolQualifiedName(Self, last.symbol) = NoSymbol
    /\ NoneUnparsable(all_files)
    /\ ~last.raised
    /\ last.result # <<>>

\* ---- one-way transitions ------------------------------------------------
\* C17: over any sequence of operations the discovered set and the indexed
\* set only grow, and every indexed file is a discovered file.
C17_FileStateOneWay ==
    /\ [](indexed_files \subseteq Range(all_files))
    /\ [][/\ Range(all_files) \subseteq Range(all_files')
          /\ indexed_files \subseteq indexed_files']_vars

\* a file-path query discovered and indexed a file the sweep had not found,
\* while another discovered file is still unindexed
C17_Witness ==
    /\ last.op \in QueryOps
    /\ last.file_path \in indexed_files
    /\ last.file_path \notin Range(rglob)
    /\ \E p \in Range(rglob) : p \notin indexed_files /\ disk[p].exists

\* the two symbol tables as _resolve_symbol_qualified_name reads them
Tables(index, by_simple_name) ==
    [symbol_index |-> index, symbols_by_simple_name |-> by_simple_name]

\* the names a caller may ask for: those of the queries and every key of
\* the two symbol tables st
Names(st) ==
    QuerySymbols \cup DictKeys(st.symbol_index)
                 \cup DOMAIN st.symbols_by_simple_name

\* the simple and the qualified names of the definitions a parse yields
DefinedBy(definitions) ==
    {definitions[i].v.name : i \in 1..Len(definitions)}
        \cup {definitions[i].k : i \in 1..Len(definitions)}

\* between the tables before and after a step: every name that resolved
\* still resolves, and a name that starts to resolve is one of defined
OneWay(before, after, defined) ==
    \A n \in Names(before) \cup Names(after) :
        IF ResolveSymbolQualifiedName(before, n) # NoSymbol
        THEN ResolveSymbolQualifiedName(after, n) # NoSymbol
        ELSE ResolveSymbolQualifiedName(after, n) # NoSymbol => n \in defined

\* C18: once _resolve_symbol_qualified_name(name) returns a qualified name it
\* does so in every later state, and a name starts to resolve only in a step
\* that indexes a file defining it.
C18_ResolvableOneWay ==
    [][\/ UNCHANGED <<symbol_index, symbols_by_simple_name>>
       \/ OneWay(Tables(symbol_index, symbols_by_simple_name),
                 Tables(symbol_index', symbols_by_simple_name'),
                 UNION {DefinedBy(Parsed(p).definitions) :
                           p \in indexed_files' \ indexed_files})]_vars

\* a name that an engine built without eager indexing resolves after a query,
\* with two files indexed one after the other
C18_Witness ==
    /\ max_eager_files = 0
    /\ last.op \in QueryOps
    /\ last.symbol # NoSymbol
    /\ ResolveSymbolQualifiedName(Self, last.symbol) # NoSymbol
    /\ Cardinality(indexed_files) = 2
    /\ Len(symbol_index) > 2

\* ---- parsed once ----------------------------------------------------------
\* the entries of a list of references that lie in one of the files
ReferencesIn(refs, files) ==
    SelectSeq(refs, LAMBDA ref : ref.file_path \in files)

\* what the tables hold of the files indexed before a step is what they held:
\* their outlines, their references and, wherever a qualified name still
\* belongs to one of them, its definition
KeptFrom(files, outlines, outlinesAfter, index, indexAfter, refs, refsAfter) ==
    /\ \A p \in files :
          p \in DOMAIN outlinesAfter /\ outlinesAfter[p] = outlines[p]
    /\ ReferencesIn(refsAfter, files) = ReferencesIn(refs, files)
    /\ \A i \in 1..Len(indexAfter) :
          indexAfter[i].v.file_path \in files =>
              /\ indexAfter[i].k \in DictKeys(index)
              /\ DictValue(index, indexAfter[i].k) = indexAfter[i].v

\* C19: no step parses an indexed file again: whatever happens to the file on
\* disk, the outline, the definitions and the references taken from it stay
\* as they were, and a call that names it changes nothing in the index.
C19_ParsedOnce ==
    [][/\ KeptFrom(indexed_files, outline_index, outline_index',
                   symbol_index, symbol_index', references, references')
       /\ last'.file_path \in indexed_files => UNCHANGED indexVars]_vars

\* the references of a file asked for after the file, already indexed, was
\* rewritten: the answer lists the names of the text that was parsed
C19_Witness ==
    /\ last.op = "get_references"
    /\ last.file_path = PathAB
    /\ disk[PathAB].text = Rewritten
    /\ Len(last.result) = Len(SourceText(PathAB).names)
    /\ last.result[4].symbol = "zz"

\* ---- outline nesting ------------------------------------------------------
RECURSIVE Mirrors(_, _)
\* the views are those of the nodes, one for one in the same order, and the
\* children of each view are those of its node, all the way down
Mirrors(nodes, views) ==
    /\ Len(views) = Len(nodes)
    /\ \A i \in 1..Len(nodes) :
          /\ views[i].name = nodes[i].symbol.name
          /\ views[i].kind = nodes[i].symbol.kind
          /\ views[i].file_path = nodes[i].symbol.file_path
          /\ views[i].line = nodes[i].symbol.line
          /\ Mirrors(nodes[i].children, views[i].children)

\* the names of a list of views
ViewNames(views) == [i \in 1..Len(views) |-> views[i].name]

\* the outline node a call of get_outline stands for in the engine st that
\* answered it, or none
OutlineTarget(call, st, qualname) ==
    IF call.symbol # NoSymbol
    THEN IF qualname # NoSymbol /\ qualname \in DOMAIN st.node_index
         THEN <<st.node_index[qualname]>> ELSE <<>>
    ELSE IF call.file_path # NoPath /\ call.file_path \in DOMAIN st.outline_index
         THEN <<st.outline_index[call.file_path]>> ELSE <<>>

\* the answer lists the children of the target, or nothing without a target
ChildrenOf(target, views) ==
    IF target = <<>> THEN views = <<>>
    ELSE Mirrors(target[1].children, views)

\* C20: get_outline returns the serialized immediate children of the node the
\* symbol or the file resolves to, never the node itself, each child with its
\* own children in the same order to the full depth; for the class C, once
\* its file is indexed, that is its two methods, and the outline of C's module
\* has C among its entries.
C20_OutlineNesting ==
    (last.op = "get_outline" /\ ~last.raised) =>
        /\ ChildrenOf(OutlineTarget(last, Self,
                          ResolveSymbolQualifiedName(Self, last.symbol)),
                      last.result)
        /\ last.symbol = "C" /\ PathAB \in indexed_files =>
               ViewNames(last.result) = <<"__init__", "f">>
        /\ last.file_path = PathAB /\ PathAB \in indexed_files =>
               \E i \in 1..Len(last.result) :
                   /\ last.result[i].name = "C"
                   /\ last.result[i].kind = "class"
                   /\ ViewNames(last.result[i].children) = <<"__init__", "f">>

\* the outline of the module of C: the class with its two methods below it
C20_Witness ==
    /\ last.op = "get_outline"
    /\ last.file_path = PathAB
    /\ ~last.raised
    /\ Len(last.result) = 4
    /\ Len(last.result[1].children) = 2

\* ---- references ----------------------------------------------------------
\* no entry of a list occurs twice in it
NoDuplicates(s) == \A i, j \in 1..Len(s) : s[i] = s[j] => i = j

\* the last call asked for the references of a file that is on disk and
\* parses
AskedReferencesOfFile ==
    /\ last.op = "get_references"
    /\ last.symbol = NoSymbol
    /\ last.file_path # NoPath
    /\ disk[last.file_path].exists
    /\ disk[last.file_path].ok

\* C21: get_references(file_path = p) for a parseable file p with N Name
\* nodes returns N entries, each with file_path p, none of them twice, however
\* and whenever p was indexed.
C21_ReferencesOfFile ==
    AskedReferencesOfFile =>
        /\ ~last.raised
        /\ Len(last.result) = Len(disk[last.file_path].text.names)
        /\ \A i \in 1..Len(last.result) :
              /\ last.result[i].file_path = last.file_path
              /\ last.result[i].symbol = disk[last.file_path].text.names[i].symbol
        /\ NoDuplicates(last.result)

\* the references of a file indexed before the call, with the references of
\* another file in the list
C21_Witness ==
    /\ AskedReferencesOfFile
    /\ Len(last.result) = 5
    /\ Len(references) > 5
    /\ max_eager_files > 0

\* the Name nodes of file p that carry the name s
NamesOf(p, s) ==
    SelectSeq(disk[p].text.names, LAMBDA name : name.symbol = s)

\* the last call asked for the references of a name and returned
AskedReferencesOfSymbol ==
    /\ last.op = "get_references"
    /\ last.symbol # NoSymbol
    /\ ~last.raised

\* views are the occurrences of the name s in the files of indexed, each one
\* once
OccurrencesIn(indexed, s, views) ==
    /\ Len(views) = SumOver(indexed, [p \in indexed |-> Len(NamesOf(p, s))])
    /\ NoDuplicates(views)
    /\ \A i \in 1..Len(views) :
          /\ views[i].symbol = s
          /\ views[i].file_path \in indexed
          /\ \E k \in 1..Len(NamesOf(views[i].file_path, s)) :
                /\ NamesOf(views[i].file_path, s)[k].line = views[i].line
                /\ NamesOf(views[i].file_path, s)[k].column = views[i].column

\* s is the beginning of t
IsPrefix(s, t) == Len(s) <= Len(t) /\ SubSeq(t, 1, Len(s)) = s

\* C22: get_references(symbol = s) returns the occurrences of s in the files
\* indexed when it returns, which are the references registered under s, and
\* the list registered under a name only grows at its end, so that a later
\* answer begins with every earlier one.
C22_ReferencesOfSymbol ==
    /\ [](AskedReferencesOfSymbol =>
             /\ OccurrencesIn(indexed_files, last.symbol, last.result)
             /\ last.result = RegisteredReferences(Self, last.symbol))
    /\ [][\A s \in DOMAIN refs_by_symbol :
             /\ s \in DOMAIN refs_by_symbol'
             /\ IsPrefix(refs_by_symbol[s], refs_by_symbol'[s])]_vars

\* the occurrences of b in two files, of which the sweep found one
C22_Witness ==
    /\ AskedReferencesOfSymbol
    /\ last.symbol = "b"
    /\ Len(last.result) = 2
    /\ last.result[1].file_path # last.result[2].file_path
    /\ Len(rglob) = 1

\* ---- filter_symbols ------------------------------------------------------
\* the last call was filter_symbols and it returned
Filtered == last.op = "filter_symbols" /\ ~last.raised

\* the definitions of the symbol table, in insertion order, that pass the
\* filters of the call
MatchesOf(call, st) ==
    SelectSeq(Candidates(st, call.file_path),
              LAMBDA defn : PassesFilters(defn, call.name, call.kind,
                                          call.type_hint))

\* the views of the first n entries of a list of definitions
FirstViews(definitions, n) ==
    [i \in 1..(IF n < Len(definitions) THEN n ELSE Len(definitions)) |->
       MatchView(definitions[i])]

\* the answer is cut at max_results
CutAtMaxResults(call, matches) ==
    /\ Len(call.result) <= call.max_results
    /\ Len(matches) > call.max_results =>
           call.result = FirstViews(matches, call.max_results)

\* C23: filter_symbols returns at most max_results entries for every
\* max_results, and the first max_results matches in the order of the symbol
\* table when more definitions match.
C23_MaxResults == Filtered => CutAtMaxResults(last, MatchesOf(last, Self))

\* an argument is provided; an empty string counts as provided or not
Provided(arg, emptyProvided) ==
    arg # NoSymbol /\ (emptyProvided \/ arg # "")

\* what the caller asks of a definition: every predicate that is provided
\* holds of it
Satisfies(defn, call, emptyProvided) ==
    /\ Provided(call.name, emptyProvided) =>
           IsSubstring(Lower(call.name), Lower(defn.name))
    /\ Provided(call.kind, emptyProvided) =>
           Lower(defn.kind) = Lower(call.kind)
    /\ Provided(call.type_hint, emptyProvided) =>
           /\ defn.type_annotation # NoSymbol
           /\ IsSubstring(Lower(call.type_hint), Lower(defn.type_annotation))
    /\ call.file_path # NoPath => defn.file_path = call.file_path

\* every entry of the answer is the view of a definition that satisfies the
\* call, and below the cut-off no such definition is left out
SoundAndComplete(call, definitions, emptyProvided) ==
    /\ \A i \in 1..Len(call.result) :
          \E k \in 1..Len(definitions) :
              /\ call.result[i] = MatchView(definitions[k])
              /\ Satisfies(definitions[k], call, emptyProvided)
    /\ Len(call.result) < call.max_results =>
          \A k \in 1..Len(definitions) :
              Satisfies(definitions[k], call, emptyProvided) =>
                  \E i \in 1..Len(call.result) :
                      call.result[i] = MatchView(definitions[k])

\* C24 as stated: a definition is in the result only if it satisfies every
\* provided predicate (name, kind, type hint, file), and every definition
\* that satisfies them is in the result unless the cut-off was reached.
C24_AsStated ==
    Filtered => SoundAndComplete(last, DictValues(symbol_index), TRUE)

\* C24 (amended): as stated, a predicate being provided when its argument is
\* neither None nor the empty string.
C24_Predicates ==
    Filtered => SoundAndComplete(last, DictValues(symbol_index), FALSE)

\* a call with the three predicates and a file, answered with the annotated
\* variable of the file
C24_Witness ==
    /\ Filtered
    /\ last.name = NoSymbol
    /\ last.kind = ""
    /\ last.type_hint = "t"
    /\ last.file_path = PathAB
    /\ Len(last.result) = 1
    /\ last.result[1].name = "x"

\* ---- the lazy scan -------------------------------------------------------
\* the step is a query by symbol (each begins with _ensure_symbol_indexed and
\* indexes nothing else) for a name that is in neither table
ScansFor(call, st) ==
    /\ call.op \in QueryOps
    /\ call.symbol # NoSymbol
    /\ ~IsKnown(st, call.symbol)

\* the files of a set whose parse defines the name
DefiningFiles(files, symbol) ==
    {p \in files : symbol \in DefinedBy(Parsed(p).definitions)}

\* the files the scan indexed come before the ones of rest in the order of
\* score, and the only one of them that defines the name comes last
PrefixWithEarlyStop(indexed, rest, score, defining) ==
    /\ \A p \in indexed, q \in rest : TupleLeq(score[p], score[q])
    /\ Cardinality(defining) <= 1
    /\ \A p \in defining, q \in indexed : TupleLeq(score[q], score[p])

\* C25 as stated: the files a scan indexes are a prefix of the unindexed
\* discovered files in the order of (stem contains the name, cached size),
\* ending with the first file that makes the name resolve.
C25_AsStated ==
    [][(ScansFor(last', Self) /\ indexed_files' # indexed_files) =>
          PrefixWithEarlyStop(indexed_files' \ indexed_files,
                              Range(Remaining(Self)) \ indexed_files',
                              Score(Self, last'.symbol),
                              DefiningFiles(indexed_files' \ indexed_files,
                                            last'.symbol))]_vars

\* C25 (amended): the same of the unindexed discovered files that exist on
\* disk; a path of the order without a file is passed over and not indexed.
C25_ScanOrder ==
    [][(ScansFor(last', Self) /\ indexed_files' # indexed_files) =>
          PrefixWithEarlyStop(indexed_files' \ indexed_files,
                              {p \in Range(Remaining(Self)) \ indexed_files' :
                                  disk[p].exists},
                              Score(Self, last'.symbol),
                              DefiningFiles(indexed_files' \ indexed_files,
                                            last'.symbol))]_vars

\* a scan that indexed one of two unindexed files and stopped there
C25_Witness ==
    /\ last.op \in QueryOps
    /\ last.symbol = "f"
    /\ ~last.raised
    /\ max_eager_files = 0
    /\ Len(all_files) = 2
    /\ Cardinality(indexed_files) = 1
    /\ \A p \in Range(all_files) : disk[p].exists
    /\ IsKnown(Self, "f")

\* C26: a query for a name that is a key of the symbol table or of the
\* collision table indexes no file: its _ensure_symbol_indexed leaves the
\* index maps, the discovered files and the indexed set as they are.
C26_KnownNameNoScan ==
    [][(/\ last'.op \in QueryOps
        /\ last'.symbol # NoSymbol
        /\ IsKnown(Self, last'.symbol)) => UNCHANGED engineVars]_vars

\* a known name asked for while a discovered file waits to be indexed: only
\* the one eager file was ever indexed
C26_Witness ==
    /\ last.op \in QueryOps
    /\ last.symbol # NoSymbol
    /\ IsKnown(Self, last.symbol)
    /\ max_eager_files = 1
    /\ Cardinality(indexed_files) = 1
    /\ Cardinality(Range(all_files)) = 2
    /\ \A p \in Range(all_files) : disk[p].exists

\* ---- files outside the sweep --------------------------------------------
\* the last call named, by path alone, a parseable file the sweep had not
\* found
AskedOutsideSweep ==
    /\ last.op \in QueryOps
    /\ last.symbol = NoSymbol
    /\ last.file_path # NoPath
    /\ last.file_path \notin Range(rglob)
    /\ disk[last.file_path].exists
    /\ disk[last.file_path].ok

\* C27: after a file-path query for an existing parseable file p outside the
\* sweep, p is discovered with its size cached and indexed, and the two
\* definition queries return the module definition of p.
C27_OutsideSweep ==
    AskedOutsideSweep =>
        /\ ~last.raised
        /\ last.file_path \in Range(all_files)
        /\ last.file_path \in DOMAIN file_sizes
        /\ file_sizes[last.file_path] = disk[last.file_path].size
        /\ last.file_path \in indexed_files
        /\ last.op \in {"get_definition_short", "get_definition_full"} =>
              /\ last.result.found
              /\ last.result.kind = "module"
              /\ last.result.name = Stem(last.file_path)
              /\ last.result.file_path = last.file_path

\* the module of /o/a.py returned with the module of /r/a.py, of the same
\* name, indexed as well
C27_Witness ==
    /\ AskedOutsideSweep
    /\ last.op = "get_definition_full"
    /\ last.file_path = PathOutA
    /\ last.result.found
    /\ PathA \in indexed_files
    /\ Len(all_files) > Len(rglob)

\* ---- discovery ------------------------------------------------------------
\* C28: a swept path whose size cannot be read is enumerated with the cached
\* size 0 and adds 0 to the total, and the sweep goes on to the other paths.
C28_StatFailure ==
    last.op = "construct" =>
        /\ all_files = rglob
        /\ \A i \in 1..Len(rglob) :
              /\ rglob[i] \in DOMAIN file_sizes
              /\ file_sizes[rglob[i]] =
                     IF disk[rglob[i]].exists THEN disk[rglob[i]].size ELSE 0
        /\ total_bytes =
               SumOver(1..Len(rglob),
                       [i \in 1..Len(rglob) |->
                          IF disk[rglob[i]].exists THEN disk[rglob[i]].size
                          ELSE 0])

\* a sweep that met the unreadable path first and a file after it
C28_Witness ==
    /\ last.op = "construct"
    /\ Len(rglob) = 2
    /\ ~disk[rglob[1]].exists
    /\ disk[rglob[2]].exists
    /\ total_bytes = disk[rglob[2]].size
    /\ Len(all_files) = 2

\* ---- the cost of a lazy scan ---------------------------------------------
\* the _index_file calls of the scan a call starts from a state
VisitsOf(call, st) ==
    ScanVisits(st, disk, call.symbol,
               SortedBy(Remaining(st), Score(st, call.symbol)))

\* the scan missed: nothing raised, every discovered file parses, and the
\* name is in neither table afterwards
Missed(call, before, after) ==
    /\ ~call.raised
    /\ \A p \in Range(before.all_files) : disk[p].exists => disk[p].ok
    /\ ~IsKnown(after, call.symbol)

\* C30: a lazy scan calls _index_file at most once per discovered file that
\* was unindexed when it started; on a miss every existing discovered file
\* ends up indexed, and a second scan for the same name indexes nothing.
C30_BoundedScan ==
    [][ScansFor(last', Self) =>
          /\ NoDuplicates(VisitsOf(last', Self))
          /\ Range(VisitsOf(last', Self)) \subseteq
                 Range(all_files) \ indexed_files
          /\ Missed(last', Self, Self') =>
                /\ \A p \in Range(all_files) :
                      disk[p].exists => p \in indexed_files'
                /\ EnsureSymbolIndexed(Self', disk, last'.symbol).st = Self'
       ]_vars

\* ---- tool calls in flight --------------------------------------------------
\* everything _index_file registers of a file is in the index
FullyRegistered(st, p, parsed) ==
    /\ p \in DOMAIN st.outline_index
    /\ st.outline_index[p] = parsed.module_node
    /\ parsed.module_node.symbol.qualified_name \in DOMAIN st.node_index
    /\ \A k \in 1..Len(parsed.definitions) :
          /\ parsed.definitions[k].k \in DictKeys(st.symbol_index)
          /\ parsed.definitions[k].v.name \in DOMAIN st.symbols_by_simple_name
    /\ ReferencesIn(st.references, {p}) = parsed.references

C31_AsStated ==
    [][\A n \in DOMAIN symbols_by_simple_name :
          ResolveSymbolQualifiedName(Self', n) =
             ResolveSymbolQualifiedName(Self, n)]_vars

\* C31: a simple name n that resolves to q resolves to q after every step,
\* unless the step registers a definition whose qualified name is n: from
\* then on n is an exact match and resolves to itself.
C31_ResolutionStable ==
    [][\A n \in DOMAIN symbols_by_simple_name :
          ResolveSymbolQualifiedName(Self', n) =
             IF n \in DictKeys(symbol_index') THEN n
             ELSE ResolveSymbolQualifiedName(Self, n)]_vars

\* the variable a of /r/a/b.py was indexed first, then the module a, and
\* the name f has candidates of two files
C31_Witness ==
    /\ "a" \in DOMAIN symbols_by_simple_name
    /\ symbols_by_simple_name["a"][1] = "a.b.a"
    /\ ResolveSymbolQualifiedName(Self, "a") = "a"
    /\ "f" \in DOMAIN symbols_by_simple_name
    /\ Len(symbols_by_simple_name["f"]) = 2
    /\ last.op \in QueryOps

\* ---- the empty string as a symbol -----------------------------------------
\* C32: a query called with symbol = "" behaves as if no symbol were given:
\* with the path of a file that exists and parses it indexes that file and
\* the definition queries return its module; without a file path it returns
\* the absent result and indexes no file.
C32_EmptySymbol ==
    [][(last'.op \in QueryOps /\ last'.symbol = "") =>
          IF last'.file_path = NoPath
          THEN /\ UNCHANGED engineVars
               /\ ~last'.raised
          ELSE (\A p \in Paths : disk[p].ok) =>
                  /\ ~last'.raised
                  /\ last'.file_path \in indexed_files'
                  /\ indexed_files' \subseteq
                         indexed_files \cup {last'.file_path}
                  /\ last'.op \in {"get_definition_short",
                                   "get_definition_full"} =>
                        /\ last'.result.found
                        /\ last'.result.kind = "module"
                        /\ last'.result.file_path = last'.file_path
       ]_vars

\* ---- what filter_symbols indexes -------------------------------------------
\* C33: filter_symbols called without a file path leaves the discovered
\* files, the indexed set and every index map as they are and returns
\* definitions of indexed files only; called with a file path it indexes at
\* most that file.
C33_FilterFrame ==
    [][last'.op = "filter_symbols" =>
          IF last'.file_path = NoPath
          THEN /\ UNCHANGED engineVars
               /\ \A i \in 1..Len(last'.result) :
                     last'.result[i].file_path \in indexed_files
          ELSE indexed_files' \subseteq indexed_files \cup {last'.file_path}
       ]_vars

\* a call without a file path answered from the indexed files while a
\* discovered file that exists is still unindexed
C33_Witness ==
    /\ Filtered
    /\ last.file_path = NoPath
    /\ last.name = "INIT"
    /\ Len(last.result) > 0
    /\ \E p \in Range(all_files) : disk[p].exists /\ p \notin indexed_files

\* ---- the order of the collision lists --------------------------------------
\* the list of a simple name, empty while the name has none
ListOf(table, n) == IF n \in DOMAIN table THEN table[n] ELSE <<>>

\* the qualified names a parsed file declares under a simple name, in the
\* order of its definition map
DeclaredAs(definitions, n) ==
    LET declared == SelectSeq(definitions, LAMBDA e : e.v.name = n)
    IN  [i \in 1..Len(declared) |-> declared[i].k]

\* the orders in which a set of files can have been indexed
Orders(files) ==
    {order \in [1..Cardinality(files) -> files] :
        \A i, j \in 1..Cardinality(files) : order[i] = order[j] => i = j}

\* what indexing the files of order, one after the other, appends for n
RECURSIVE AppendedFor(_, _)
AppendedFor(order, n) ==
    IF order = <<>> THEN <<>>
    ELSE DeclaredAs(Parsed(Head(order)).definitions, n)
            \o AppendedFor(Tail(order), n)

\* the table after a step is the table before it with, for some order of
\* the files the step indexed, their declarations appended file by file
AppendedInOrder(before, after, indexed) ==
    /\ DOMAIN before \subseteq DOMAIN after
    /\ \E order \in Orders(indexed) :
          \A n \in DOMAIN after :
             after[n] = ListOf(before, n) \o AppendedFor(order, n)

\* C34: every step leaves the entries of each collision list where they
\* are and appends to the lists the qualified names of the files it indexes,
\* file after file in the order of indexing and, within a file, in the order
\* of declaration.
C34_CollisionOrder ==
    [][\/ UNCHANGED <<symbols_by_simple_name, indexed_files>>
       \/ /\ \A n \in DOMAIN symbols_by_simple_name :
                IsPrefix(symbols_by_simple_name[n],
                         ListOf(symbols_by_simple_name', n))
          /\ AppendedInOrder(symbols_by_simple_name, symbols_by_simple_name',
                             indexed_files' \ indexed_files)]_vars

\* the name f with the method of /r/a/b.py indexed before the function of
\* /o/a.py, and the two names x of /r/a/b.py entered once
C34_Witness ==
    /\ "f" \in DOMAIN symbols_by_simple_name
    /\ symbols_by_simple_name["f"] = <<"a.b.C.f", "a.f">>
    /\ "x" \in DOMAIN symbols_by_simple_name
    /\ symbols_by_simple_name["x"] = <<"a.b.x">>
    /\ last.op \in QueryOps

\* ---- the outline map --------------------------------------------------------
\* C35: the files that have an outline are the indexed files, and the outline
\* of a file is rooted at a node of kind module whose file is that file.
C35_OutlinePerIndexedFile ==
    /\ DOMAIN outline_index = indexed_files
    /\ \A p \in DOMAIN outline_index :
          /\ outline_index[p].symbol.kind = "module"
          /\ outline_index[p].symbol.file_path = p
          /\ outline_index[p].symbol.name = Stem(p)

\* two files indexed by queries, and a discovered path that could not be
\* indexed
C35_Witness ==
    /\ last.op \in QueryOps
    /\ Cardinality(indexed_files) = 2
    /\ Cardinality(DOMAIN outline_index) = 2
    /\ \E p \in Range(all_files) : ~disk[p].ok /\ p \notin indexed_files

\* ---- the names and the nesting the parser gives ----------------------------
\* the qualified name of the module of each path of the model: the parts
\* below /r joined by dots, the stem for the file outside /r
ModuleNameOf(p) ==
    CASE p = PathA -> "a"
      [] p = PathAB -> "a.b"
      [] p = PathOutA -> "a"

\* the statements of a body that declare something
Declarations(body) == SelectSeq(body, LAMBDA stmt : stmt.kind # "expr")

\* the children of a node are the declarations of the body of its statement,
\* in their order, each named after the node and nested in the same way
RECURSIVE NestedAs(_, _)
NestedAs(node, body) ==
    /\ Len(node.children) = Len(Declarations(body))
    /\ \A i \in 1..Len(node.children) :
          /\ node.children[i].symbol.name = Declarations(body)[i].name
          /\ node.children[i].symbol.kind = Declarations(body)[i].kind
          /\ node.children[i].symbol.parent_qualified_name =
                 node.symbol.qualified_name
          /\ node.children[i].symbol.qualified_name =
                 node.symbol.qualified_name \o "." \o
                     Declarations(body)[i].name
          /\ NestedAs(node.children[i], Declarations(body)[i].body)

\* C36: the module of a parsed file is named after its path below the root
\* (after its stem outside the root), a nested declaration is named after
\* its enclosing scope, and its outline node is a child of the node of that
\* scope.
C36_NamingAndNesting ==
    \A p \in DOMAIN outline_index :
       /\ outline_index[p].symbol.qualified_name = ModuleNameOf(p)
       /\ outline_index[p].symbol.parent_qualified_name = NoSymbol
       /\ NestedAs(outline_index[p], disk[p].text.body)

\* /r/a/b.py with a class g holding a class h holding a function x
C36_Witness ==
    /\ PathAB \in DOMAIN outline_index
    /\ Len(outline_index[PathAB].children) = 2
    /\ outline_index[PathAB].children[1].symbol.kind = "class"
    /\ Len(outline_index[PathAB].children[1].children) = 1
    /\ outline_index[PathAB].children[1].children[1].symbol.kind = "class"
    /\ Len(outline_index[PathAB].children[1].children[1].children) = 1
    /\ outline_index[PathAB].children[1].children[1].children[1]
          .symbol.qualified_name = "a.b.g.h.x"

\* ---- outline nodes and definitions of one file ------------------------------
\* the nodes of an outline tree, the root first
RECURSIVE AllNodes(_)
RECURSIVE NodesOfAll(_)
NodesOfAll(nodes) ==
    IF nodes = <<>> THEN <<>>
    ELSE AllNodes(Head(nodes)) \o NodesOfAll(Tail(nodes))

AllNodes(node) == <<node>> \o NodesOfAll(node.children)

\* the outline tree and the definition map hold the same number of entries,
\* and every definition is the symbol of exactly one node
OneToOne(nodes, definitions) ==
    /\ Len(nodes) = Len(definitions)
    /\ \A k \in 1..Len(definitions) :
          Cardinality({i \in 1..Len(nodes) :
                          nodes[i].symbol = definitions[k].v}) = 1

\* C39: for every parsed file the outline tree has as many nodes as the
\* definition map has entries and each definition is wrapped by exactly one
\* node, also when a name is declared twice in one scope.
C39_OneToOne ==
    \A p \in DOMAIN outline_index :
       OneToOne(AllNodes(outline_index[p]), Parsed(p).definitions)

\* ---- the node index and the symbol table -----------------------------------
\* C37: the node index and the symbol table have the same qualified names as
\* keys, and the node stored under a name wraps the definition the symbol
\* table stores under it.
C37_NodeIndexInStep ==
    /\ DOMAIN node_index = DictKeys(symbol_index)
    /\ \A q \in DOMAIN node_index :
          node_index[q].symbol = DictValue(symbol_index, q)

\* the name a.b of the function of /r/a.py taken over, in both tables, by
\* the module of /r/a/b.py
C37_Witness ==
    /\ {PathA, PathAB} \subseteq indexed_files
    /\ "a.b" \in DOMAIN node_index
    /\ node_index["a.b"].symbol.kind = "module"
    /\ "a.b.x" \in DOMAIN node_index
    /\ node_index["a.b.x"].symbol.line = 6
    /\ last.op \in QueryOps

\* ---- the collision table and the symbol table ------------------------------
\* C38: every qualified name of the list of a simple name is a key of the
\* symbol table whose definition has that simple name, every key of the
\* symbol table is in the list of the simple name of its definition, and no
\* list holds a qualified name twice.
C38_CollisionTableConsistent ==
    /\ \A n \in DOMAIN symbols_by_simple_name :
          /\ \A i \in 1..Len(symbols_by_simple_name[n]) :
                /\ symbols_by_simple_name[n][i] \in DictKeys(symbol_index)
                /\ DictValue(symbol_index,
                             symbols_by_simple_name[n][i]).name = n
          /\ NoDuplicates(symbols_by_simple_name[n])
    /\ \A q \in DictKeys(symbol_index) :
          /\ DictValue(symbol_index, q).name \in DOMAIN symbols_by_simple_name
          /\ q \in Range(symbols_by_simple_name[DictValue(symbol_index, q).name])

====
